---- MODULE Spec2Model ----
(***************************************************************************)
(* WalletBlockchain (chia/wallet/wallet_blockchain.py): the light-client   *)
(* header-chain state machine.  Header blocks are drawn from a fixed block *)
(* tree; the external collaborators (header validator, block-record        *)
(* constructor, fork-point search, weight-proof verifier) are operators    *)
(* over that tree.                                                         *)
(***************************************************************************)
EXTENDS Integers, Sequences, FiniteSets, TLC

\* Height of the tip of the main chain A of the block tree.
MaxHeight == 4

\* Python's None, for an Optional[bytes32] / Optional[HeaderBlock].
None == <<"None", 0>>
\* None for an Optional[uint64] timestamp.
NoTimestamp == -1
\* None for an Optional[Err].
NoErr == "None"

(***************************************************************************)
(* The block tree the network can deliver.                                 *)
(*   A0 .. A<MaxHeight>  the main chain (A0 is the genesis block)          *)
(*   G0                  another genesis block, as heavy as A0, that is    *)
(*                       not a transaction block                           *)
(*   S1                  a sibling of A1, lighter than A1                  *)
(*   B2, B3              a fork off A1: B2 is as heavy as A3, B3 is        *)
(*                       heavier than every block of A                     *)
(*   X1, Y1, Z1          children of A0 that the header validator rejects  *)
(***************************************************************************)
MainChain == {<<"A", h>> : h \in 0..MaxHeight}
ForkChain == {<<"B", 2>>, <<"B", 3>>}
Rejected == {<<"X", 1>>, <<"Y", 1>>, <<"Z", 1>>}
Hashes ==
    MainChain \cup ForkChain \cup {<<"S", 1>>, <<"G", 0>>} \cup Rejected

prev_header_hash_of(hh) ==
    IF hh[2] = 0 THEN None
    ELSE IF hh[1] = "A" THEN <<"A", hh[2] - 1>>
    ELSE IF hh = <<"B", 2>> THEN <<"A", 1>>
    ELSE IF hh = <<"B", 3>> THEN <<"B", 2>>
    ELSE <<"A", 0>>

weight_of(hh) ==
    IF hh[1] = "A" THEN 10 * hh[2] + 1
    ELSE IF hh = <<"B", 2>> THEN 31
    ELSE IF hh = <<"B", 3>> THEN 10 * MaxHeight + 5
    ELSE IF hh = <<"G", 0>> THEN 1
    ELSE 5

\* Transaction blocks carry a timestamp; the others have none.
is_transaction_block_of(hh) ==
    IF hh[1] = "A" THEN hh[2] % 2 = 0
    ELSE hh \in {<<"B", 3>>, <<"S", 1>>}

timestamp_of(hh) ==
    IF ~is_transaction_block_of(hh) THEN NoTimestamp
    ELSE IF hh[1] = "A" THEN 10 + hh[2]
    ELSE IF hh = <<"B", 3>> THEN 12
    ELSE 11

\* chia.types.header_block.HeaderBlock, reduced to the fields the wallet
\* blockchain reads.
HeaderBlock(hh) ==
    [header_hash |-> hh,
     height |-> hh[2],
     prev_header_hash |-> prev_header_hash_of(hh),
     weight |-> weight_of(hh),
     foliage_transaction_block |-> timestamp_of(hh)]

HeaderBlocks == {HeaderBlock(hh) : hh \in Hashes}

\* chia.consensus.block_record.BlockRecord, reduced likewise.
BlockRecord(hh) ==
    [header_hash |-> hh,
     height |-> hh[2],
     prev_hash |-> prev_header_hash_of(hh),
     weight |-> weight_of(hh),
     is_transaction_block |-> is_transaction_block_of(hh),
     timestamp |-> timestamp_of(hh)]

\* Python dict helpers: d[k] = v and del d[k] for all k in ks.
Put(d, k, v) == [x \in DOMAIN d \cup {k} |-> IF x = k THEN v ELSE d[x]]
Del(d, ks) == [x \in DOMAIN d \ ks |-> d[x]]
EmptyDict == [x \in {} |-> 0]

\* The two kinds of value the code writes into _height_to_hash.
Bytes32(hh) == [type |-> "bytes32", header_hash |-> hh]
RecordObject(rec) == [type |-> "BlockRecord", header_hash |-> rec.header_hash]

(***************************************************************************)
(* Weight proofs.  A proof is identified by its last recent_chain_data     *)
(* entry (tail), the lowest height the verifier returns a record for       *)
(* (first) and the verifier's verdict (valid).                             *)
(***************************************************************************)
NoProof == [tail |-> None, first |-> 0, valid |-> FALSE]
WeightProofs ==
    {[tail |-> <<"A", 2>>, first |-> 0, valid |-> TRUE],
     [tail |-> <<"A", 2>>, first |-> 1, valid |-> TRUE],
     [tail |-> <<"B", 3>>, first |-> 0, valid |-> TRUE],
     [tail |-> <<"B", 3>>, first |-> 0, valid |-> FALSE]}

RECURSIVE PathTo(_)
\* The hashes of the chain from genesis to hh, lowest height first.
PathTo(hh) ==
    IF hh = None THEN <<>> ELSE Append(PathTo(prev_header_hash_of(hh)), hh)

\* WalletWeightProofHandler.validate_weight_proof: (success, records).
validate_weight_proof(wp) ==
    [success |-> wp.valid,
     records |-> IF wp.valid
                 THEN [i \in 1..(Len(PathTo(wp.tail)) - wp.first) |->
                          BlockRecord(PathTo(wp.tail)[i + wp.first])]
                 ELSE <<>>]

VARIABLES
    synced_weight_proof,   \* Optional[WeightProof]
    peak,                  \* _peak: header hash of the peak HeaderBlock, or None
    height_to_hash,        \* _height_to_hash: Dict[uint32, ...]
    block_records,         \* _block_records: Dict[bytes32, BlockRecord]
    latest_timestamp,      \* _latest_timestamp: uint64
    basic_store,           \* _basic_store: PEAK_BLOCK and SYNCED_WEIGHT_PROOF
    last,                  \* the last call made and how it ended
    tasks,                 \* the calls in flight, suspended at an await
    history,               \* what the calls made so far have shown
    USE_CLVM_SERIALIZATION,  \* signer_protocol.USE_CLVM_SERIALIZATION
    TRANSPORT_LAYER,       \* signer_protocol.TRANSPORT_LAYER
    with_blocks,           \* the open clvm_serialization_mode blocks
    transport              \* an object on its way through a TransportLayer

vars == <<synced_weight_proof, peak, height_to_hash, block_records,
          latest_timestamp, basic_store, last, tasks, history,
          USE_CLVM_SERIALIZATION, TRANSPORT_LAYER, with_blocks, transport>>

\* The fields and the store of the WalletBlockchain instance.
wallet == <<synced_weight_proof, peak, height_to_hash, block_records,
            latest_timestamp, basic_store>>

\* The state of the signer protocol module.
signer == <<USE_CLVM_SERIALIZATION, TRANSPORT_LAYER, with_blocks, transport>>

memory == <<synced_weight_proof, peak, height_to_hash, block_records,
            latest_timestamp>>

Call(op, hh, wp, result, err, validated) ==
    [op |-> op, block |-> hh, weight_proof |-> wp, timestamp |-> NoTimestamp,
     result |-> result, err |-> err, validator_called |-> validated]

\* Variant: the containment test never finds the block.
contains_block_never(recs, header_hash) == FALSE

contains_block(recs, header_hash) == header_hash \in DOMAIN recs

contains_height(h2h, height) == height \in DOMAIN h2h

block_record(recs, header_hash) == recs[header_hash]

\* Variant: the record is not stored.
add_block_record_dropped(recs, rec) == recs

add_block_record(recs, rec) == Put(recs, rec.header_hash, rec)

\* The instance: the fields of WalletBlockchain plus the key/value store
\* it writes through.
Self ==
    [synced_weight_proof |-> synced_weight_proof,
     peak |-> peak,
     height_to_hash |-> height_to_hash,
     block_records |-> block_records,
     latest_timestamp |-> latest_timestamp,
     basic_store |-> basic_store]

\* The outcome of one call: the instance afterwards, the value returned
\* (or the exception raised) and whether the header validator ran.
Outcome(self, result, err, validated) ==
    [self |-> self, result |-> result, err |-> err,
     validator_called |-> validated]

\* Variant: the store is not written.
set_peak_block_write_skipped(self, block) == self

\* set_peak_block up to its await:
\* await self._basic_store.set_object("PEAK_BLOCK", block)
set_peak_block_write(self, block) ==
    [self EXCEPT !.basic_store.PEAK_BLOCK = block.header_hash]

\* set_peak_block after its await: the assignments to _peak and
\* _latest_timestamp.
set_peak_block_assign(self, block, timestamp) ==
    [self EXCEPT
        !.peak = block.header_hash,
        !.latest_timestamp =
            IF timestamp # NoTimestamp THEN timestamp
            ELSE IF block.foliage_transaction_block # NoTimestamp
                 THEN block.foliage_transaction_block
                 ELSE @]

\* Variant: the new peak is not written to the store.
set_peak_block_unpersisted(self, block, timestamp) ==
    [self EXCEPT
        !.peak = block.header_hash,
        !.latest_timestamp =
            IF timestamp # NoTimestamp THEN timestamp
            ELSE IF block.foliage_transaction_block # NoTimestamp
                 THEN block.foliage_transaction_block
                 ELSE @]

\* Variant: the block's own timestamp is never used.
set_peak_block_explicit_only(self, block, timestamp) ==
    [self EXCEPT
        !.basic_store.PEAK_BLOCK = block.header_hash,
        !.peak = block.header_hash,
        !.latest_timestamp = IF timestamp # NoTimestamp THEN timestamp ELSE @]

set_peak_block(self, block, timestamp) ==
    set_peak_block_assign(set_peak_block_write(self, block), block, timestamp)

\* Variant: the store is never consulted.
get_peak_block_memory_only(self) == self.peak

get_peak_block(self) ==
    IF self.peak # None THEN self.peak ELSE self.basic_store.PEAK_BLOCK

get_peak_height(self) ==
    IF self.peak = None THEN 0 ELSE HeaderBlock(self.peak).height

Max(a, b) == IF a > b THEN a ELSE b
Min(S) == CHOOSE x \in S : \A y \in S : x <= y

\* range(max(0, height), self._peak.height + 1)
RollbackRange(self, height) ==
    Max(0, height) .. HeaderBlock(self.peak).height

\* Variant: the persisted peak is not removed.
rollback_to_height_keeps_peak(self, height) ==
    IF self.peak = None THEN [self |-> self, ok |-> TRUE]
    ELSE LET missing == {h \in RollbackRange(self, height) :
                            ~contains_height(self.height_to_hash, h)}
         IN IF missing = {}
            THEN [self |-> [self EXCEPT
                     !.height_to_hash = Del(@, RollbackRange(self, height))],
                  ok |-> TRUE]
            ELSE [self |-> [self EXCEPT
                     !.height_to_hash =
                         Del(@, {h \in RollbackRange(self, height) :
                                     h < Min(missing)})],
                  ok |-> FALSE]

\* Variant: the records of the rolled-back heights are deleted as well.
rollback_to_height_pruning(self, height) ==
    IF self.peak = None THEN [self |-> self, ok |-> TRUE]
    ELSE LET missing == {h \in RollbackRange(self, height) :
                            ~contains_height(self.height_to_hash, h)}
             doomed == {self.height_to_hash[h].header_hash :
                           h \in RollbackRange(self, height) \ missing}
         IN IF missing = {}
            THEN [self |-> [self EXCEPT
                     !.height_to_hash = Del(@, RollbackRange(self, height)),
                     !.block_records = Del(@, doomed),
                     !.basic_store.PEAK_BLOCK = None],
                  ok |-> TRUE]
            ELSE [self |-> [self EXCEPT
                     !.height_to_hash =
                         Del(@, {h \in RollbackRange(self, height) :
                                     h < Min(missing)})],
                  ok |-> FALSE]

\* _rollback_to_height: deletes the heights of RollbackRange in ascending
\* order; del raises KeyError at the first height that has no entry, and
\* PEAK_BLOCK is removed only when every del succeeded.
rollback_to_height(self, height) ==
    IF self.peak = None THEN [self |-> self, ok |-> TRUE]
    ELSE LET missing == {h \in RollbackRange(self, height) :
                            ~contains_height(self.height_to_hash, h)}
         IN IF missing = {}
            THEN [self |-> [self EXCEPT
                     !.height_to_hash = Del(@, RollbackRange(self, height)),
                     !.basic_store.PEAK_BLOCK = None],
                  ok |-> TRUE]
            ELSE [self |-> [self EXCEPT
                     !.height_to_hash =
                         Del(@, {h \in RollbackRange(self, height) :
                                     h < Min(missing)})],
                  ok |-> FALSE]

\* Proof-of-space iterations the validator returns; NoIters is None.
NoIters == -1

\* validate_finished_header_block: (required_iters, error) for a block of
\* the tree; every block outside Rejected passes.
validate_finished_header_block(block) ==
    IF block.header_hash = <<"X", 1>>
    THEN [required_iters |-> NoIters, error |-> "INVALID_POSPACE_HASH"]
    ELSE IF block.header_hash = <<"Y", 1>>
    THEN [required_iters |-> NoIters, error |-> NoErr]
    ELSE IF block.header_hash = <<"Z", 1>>
    THEN [required_iters |-> 1, error |-> "INVALID_PREV_CHALLENGE_SLOT_HASH"]
    ELSE [required_iters |-> 1, error |-> NoErr]

\* block_to_block_record: the record of a validated header block.
block_to_block_record(block) == BlockRecord(block.header_hash)

RECURSIVE find_fork_point_in_chain(_, _, _)
\* find_fork_point_in_chain(blocks, block_1, block_2): walks both blocks
\* back over prev_hash until they meet; -1 when they share no ancestor;
\* the lookup of a missing ancestor raises KeyError (ok = FALSE).
find_fork_point_in_chain(recs, block_1, block_2) ==
    IF block_1.header_hash = block_2.header_hash
    THEN [ok |-> TRUE, height |-> block_1.height]
    ELSE IF block_1.height = 0 /\ block_2.height = 0
    THEN [ok |-> TRUE, height |-> -1]
    ELSE IF block_2.height > block_1.height
    THEN IF contains_block(recs, block_2.prev_hash)
         THEN find_fork_point_in_chain(recs, block_1,
                                       block_record(recs, block_2.prev_hash))
         ELSE [ok |-> FALSE, height |-> 0]
    ELSE IF block_1.height > block_2.height
    THEN IF contains_block(recs, block_1.prev_hash)
         THEN find_fork_point_in_chain(recs,
                  block_record(recs, block_1.prev_hash), block_2)
         ELSE [ok |-> FALSE, height |-> 0]
    ELSE IF contains_block(recs, block_1.prev_hash)
            /\ contains_block(recs, block_2.prev_hash)
         THEN find_fork_point_in_chain(recs,
                  block_record(recs, block_1.prev_hash),
                  block_record(recs, block_2.prev_hash))
         ELSE [ok |-> FALSE, height |-> 0]

\* The value receive_block writes into _height_to_hash for a record of the
\* newly adopted path (line 128 stores the record itself).
NewPathEntry(curr_record) == RecordObject(curr_record)

\* while curr_record.height > fork_height: ... (receive_block, the guard of
\* the loop that re-populates the height index)
AboveFork(curr_record, fork_height) == curr_record.height > fork_height

RECURSIVE walk_new_path(_, _, _, _)
\* The loop of receive_block that walks from the new record back to the
\* fork height, writing the height index and raising the timestamp.
walk_new_path(self, curr_record, ts, fork_height) ==
    IF AboveFork(curr_record, fork_height)
    THEN LET self2 == [self EXCEPT !.height_to_hash =
                          Put(@, curr_record.height, NewPathEntry(curr_record))]
             ts2 == IF curr_record.timestamp # NoTimestamp
                       /\ curr_record.timestamp > ts
                    THEN curr_record.timestamp ELSE ts
         IN IF curr_record.height = 0
            THEN [self |-> self2, ts |-> ts2, ok |-> TRUE]
            ELSE IF ~contains_block(self2.block_records, curr_record.prev_hash)
            THEN [self |-> self2, ts |-> ts2, ok |-> FALSE]
            ELSE walk_new_path(self2,
                     block_record(self2.block_records, curr_record.prev_hash),
                     ts2, fork_height)
    ELSE [self |-> self, ts |-> ts, ok |-> TRUE]

\* Variant: the longer chain wins instead of the heavier one.
HeavierThanPeak_by_height(rec, peak_block) == rec.height > peak_block.height

\* Variant: the comparison is inverted.
HeavierThanPeak_inverted(rec, peak_block) == rec.weight < peak_block.weight

\* Variant: a block as heavy as the peak replaces it.
HeavierThanPeak_or_equal(rec, peak_block) == rec.weight >= peak_block.weight

\* elif block_record.weight > self._peak.weight
HeavierThanPeak(rec, peak_block) == rec.weight > peak_block.weight

\* The peak as find_fork_point_in_chain reads it (HeaderBlock.prev_hash is
\* its prev_header_hash).
PeakAsRecord(hh) == BlockRecord(hh)

\* receive_block, after validation succeeded: the record is inserted and
\* the fork-choice rule applied.
adopt_block(self0, block) ==
    LET rec == block_to_block_record(block)
        self == [self0 EXCEPT !.block_records = add_block_record(@, rec)]
    IN IF self.peak = None
       THEN LET ts == IF rec.is_transaction_block THEN rec.timestamp
                      ELSE NoTimestamp
                s2 == [self EXCEPT !.height_to_hash =
                          Put(@, rec.height, Bytes32(rec.header_hash))]
            IN Outcome(set_peak_block(s2, block, ts), "NEW_PEAK", NoErr, TRUE)
       ELSE IF HeavierThanPeak(rec, HeaderBlock(self.peak))
       THEN LET fork ==
                    IF rec.prev_hash = self.peak
                    THEN [ok |-> TRUE, height |-> HeaderBlock(self.peak).height]
                    ELSE find_fork_point_in_chain(self.block_records, rec,
                                                  PeakAsRecord(self.peak))
            IN IF ~fork.ok
               THEN Outcome(self, "KeyError", NoErr, TRUE)
               ELSE LET rb == rollback_to_height(self, fork.height)
                    IN IF ~rb.ok
                       THEN Outcome(rb.self, "KeyError", NoErr, TRUE)
                       ELSE LET w == walk_new_path(rb.self, rec,
                                         rb.self.latest_timestamp, fork.height)
                            IN IF ~w.ok
                               THEN Outcome(w.self, "KeyError", NoErr, TRUE)
                               ELSE Outcome(set_peak_block(w.self, block, w.ts),
                                            "NEW_PEAK", NoErr, TRUE)
       ELSE Outcome(self, "ADDED_AS_ORPHAN", NoErr, TRUE)

try_block_record(recs, header_hash) ==
    IF contains_block(recs, header_hash)
    THEN block_record(recs, header_hash) ELSE BlockRecord(None)

\* Variant: the parent lookup is skipped.
ParentMissing_skipped(self, block) == FALSE

\* prev_b is None
ParentMissing(self, block) ==
    try_block_record(self.block_records, block.prev_header_hash).header_hash
        = None

\* Variant: the missing iterations are looked at before the error.
validation_error_iters_first(v) ==
    IF v.required_iters = NoIters THEN "INVALID_POSPACE"
    ELSE IF v.error # NoErr THEN v.error
    ELSE NoErr

\* The code receive_block reports for the validator's pair
\* (required_iters, error); NoErr when the block is accepted.
validation_error(v) ==
    IF v.error # NoErr THEN v.error
    ELSE IF v.required_iters = NoIters THEN "INVALID_POSPACE"
    ELSE NoErr

\* Variant: DISCONNECTED_BLOCK is returned without an error code.
disconnected_block_without_code(self) ==
    Outcome(self, "DISCONNECTED_BLOCK", NoErr, FALSE)

\* return ReceiveBlockResult.DISCONNECTED_BLOCK, Err.INVALID_PREV_BLOCK_HASH
disconnected_block(self) ==
    Outcome(self, "DISCONNECTED_BLOCK", "INVALID_PREV_BLOCK_HASH", FALSE)

\* WalletBlockchain.receive_block as a function of the instance.
receive_block_outcome(self, block) ==
    IF contains_block(self.block_records, block.header_hash)
    THEN Outcome(self, "ALREADY_HAVE_BLOCK", NoErr, FALSE)
    ELSE IF block.height # 0 /\ ParentMissing(self, block)
    THEN disconnected_block(self)
    ELSE LET code == validation_error(validate_finished_header_block(block))
         IN IF code # NoErr
            THEN Outcome(self, "INVALID_BLOCK", code, TRUE)
            ELSE adopt_block(self, block)

RECURSIVE ingest_records_last(_, _, _, _)
\* Variant: the timestamp of the last transaction block is taken, not the
\* largest one.
ingest_records_last(self, records, i, ts) ==
    IF i > Len(records) THEN [self |-> self, ts |-> ts]
    ELSE LET record == records[i]
             self2 == [self EXCEPT
                 !.height_to_hash =
                     Put(@, record.height, Bytes32(record.header_hash)),
                 !.block_records = add_block_record(@, record)]
             ts2 == IF record.is_transaction_block
                    THEN record.timestamp ELSE ts
         IN ingest_records_last(self2, records, i + 1, ts2)

RECURSIVE ingest_records_unindexed(_, _, _, _)
\* Variant: the records are stored but their heights are not indexed.
ingest_records_unindexed(self, records, i, ts) ==
    IF i > Len(records) THEN [self |-> self, ts |-> ts]
    ELSE LET record == records[i]
             self2 == [self EXCEPT
                 !.block_records = add_block_record(@, record)]
             ts2 == IF record.is_transaction_block /\ record.timestamp > ts
                    THEN record.timestamp ELSE ts
         IN ingest_records_unindexed(self2, records, i + 1, ts2)

RECURSIVE ingest_records(_, _, _, _)
\* for record in records: ... (new_weight_proof), from index i on.
ingest_records(self, records, i, ts) ==
    IF i > Len(records) THEN [self |-> self, ts |-> ts]
    ELSE LET record == records[i]
             self2 == [self EXCEPT
                 !.height_to_hash =
                     Put(@, record.height, Bytes32(record.header_hash)),
                 !.block_records = add_block_record(@, record)]
             ts2 == IF record.is_transaction_block /\ record.timestamp > ts
                    THEN record.timestamp ELSE ts
         IN ingest_records(self2, records, i + 1, ts2)

\* Variant: the verifier's verdict is ignored.
VerifierFailed_ignored(supplied, verdict) == FALSE

\* records is None, and the verifier's success flag fails the assert.
VerifierFailed(supplied, verdict) == ~supplied /\ ~verdict.success

\* Variant: a proof as heavy as the peak is ingested again.
NotHeavierProof_strict(weight_proof, peak_hash) ==
    HeaderBlock(weight_proof.tail).weight < HeaderBlock(peak_hash).weight

\* Variant: no proof is taken to be stale.
NotHeavierProof_never(weight_proof, peak_hash) == FALSE

\* weight_proof.recent_chain_data[-1].weight <= peak.weight
NotHeavierProof(weight_proof, peak_hash) ==
    HeaderBlock(weight_proof.tail).weight <= HeaderBlock(peak_hash).weight

\* Variant: the running maximum starts from zero.
StartTimestamp_zero(self) == 0

\* latest_timestamp = self._latest_timestamp
StartTimestamp(self) == self.latest_timestamp

\* Variant: the proof is neither assigned nor persisted.
persist_weight_proof_skipped(self, weight_proof) == self

\* self.synced_weight_proof = weight_proof, then
\* set_object("SYNCED_WEIGHT_PROOF", weight_proof): lines 64-65, which run
\* before the verifier of lines 69-71.
persist_weight_proof(self, weight_proof) ==
    [self EXCEPT !.synced_weight_proof = weight_proof,
                 !.basic_store.SYNCED_WEIGHT_PROOF = weight_proof]

\* WalletBlockchain.new_weight_proof as a function of the instance;
\* supplied is TRUE when the caller passes the records itself.
new_weight_proof_outcome(self, weight_proof, supplied) ==
    LET peak_block == get_peak_block(self)
    IN IF peak_block # None /\ NotHeavierProof(weight_proof, peak_block)
       THEN Outcome(self, "ok", NoErr, FALSE)
       ELSE LET s1 == persist_weight_proof(self, weight_proof)
                v == validate_weight_proof(weight_proof)
            IN IF VerifierFailed(supplied, v)
               THEN Outcome(s1, "AssertionError", NoErr, ~supplied)
               ELSE LET r == ingest_records(s1, v.records, 1,
                                            StartTimestamp(s1))
                    IN Outcome(set_peak_block(r.self,
                                   HeaderBlock(weight_proof.tail), r.ts),
                               "ok", NoErr, ~supplied)

\* The instance create() has built when it has executed self._peak = None
\* and is about to call get_peak_block.
create_line_49(store) ==
    [synced_weight_proof |-> store.SYNCED_WEIGHT_PROOF,
     peak |-> None,
     height_to_hash |-> EmptyDict,
     block_records |-> EmptyDict,
     latest_timestamp |-> 0,
     basic_store |-> store]

\* WalletBlockchain.create over the persisted store.
create_outcome(store) ==
    LET loading == create_line_49(store)
        self == [loading EXCEPT !.peak = get_peak_block(loading)]
    IN IF self.synced_weight_proof # NoProof
       THEN new_weight_proof_outcome(self, self.synced_weight_proof, FALSE)
       ELSE Outcome(self, "ok", NoErr, FALSE)

Install(self) ==
    /\ synced_weight_proof' = self.synced_weight_proof
    /\ peak' = self.peak
    /\ height_to_hash' = self.height_to_hash
    /\ block_records' = self.block_records
    /\ latest_timestamp' = self.latest_timestamp
    /\ basic_store' = self.basic_store

\* create() raised, or the process stopped: there is no instance to call
\* until the next create().
Alive == ~(last.op = "create" /\ last.result # "ok") /\ last.op # "crash"

EmptyStore == [PEAK_BLOCK |-> None, SYNCED_WEIGHT_PROOF |-> NoProof]

\* No call is in flight, and none has been made.
NoTasks == EmptyDict
NoHistory == [overlapped |-> FALSE, heaviest |-> 0, calls |-> 0]

\* TRANSPORT_LAYER = None.
NoLayer == [name |-> "None", type_mappings |-> <<>>]

\* No object, and the result of a call that has not been made.
NoObject == [class |-> "None", fields |-> [none |-> 0]]
NoResult == [ok |-> FALSE, value |-> NoObject]

\* No object is on its way through a transport layer.
NoTransport ==
    [step |-> "idle", instance |-> NoObject, sent |-> NoResult,
     received |-> NoResult]

\* The WalletBlockchain that create() returns on an empty store.
WalletInit ==
    /\ synced_weight_proof = NoProof
    /\ peak = None
    /\ height_to_hash = EmptyDict
    /\ block_records = EmptyDict
    /\ latest_timestamp = 0
    /\ basic_store = EmptyStore
    /\ last = Call("create", None, NoProof, "ok", NoErr, FALSE)
    /\ tasks = NoTasks
    /\ history = NoHistory

\* signer_protocol as imported: USE_CLVM_SERIALIZATION = False,
\* TRANSPORT_LAYER = None, no with block open.
SignerInit ==
    /\ USE_CLVM_SERIALIZATION = FALSE
    /\ TRANSPORT_LAYER = NoLayer
    /\ with_blocks = <<>>
    /\ transport = NoTransport

\* create() on an empty store.
Init == WalletInit /\ SignerInit

receive_block(block) ==
    /\ Alive
    /\ LET out == receive_block_outcome(Self, block)
       IN /\ Install(out.self)
          /\ last' = Call("receive_block", block.header_hash, NoProof,
                          out.result, out.err, out.validator_called)
    /\ UNCHANGED <<tasks, history, signer>>

new_weight_proof(weight_proof, supplied) ==
    /\ Alive
    /\ supplied => weight_proof.valid
    /\ LET out == new_weight_proof_outcome(Self, weight_proof, supplied)
       IN /\ Install(out.self)
          /\ last' = Call("new_weight_proof", None, weight_proof,
                          out.result, out.err, out.validator_called)
    /\ UNCHANGED <<tasks, history, signer>>

\* The process restarts: a new instance is created over the same store.
create ==
    /\ LET out == create_outcome(basic_store)
       IN /\ Install(out.self)
          /\ last' = Call("create", None, NoProof, out.result, out.err, FALSE)
    /\ UNCHANGED <<tasks, history, signer>>

Next ==
    \/ \E block \in HeaderBlocks : receive_block(block)
    \/ \E weight_proof \in WeightProofs, supplied \in BOOLEAN :
          new_weight_proof(weight_proof, supplied)
    \/ create

Spec == Init /\ [][Next]_vars

\* Only receive_block is called, on the instance created from an empty store.
NextReceive == \E block \in HeaderBlocks : receive_block(block)

SpecReceive == Init /\ [][NextReceive]_vars

(***************************************************************************)
(* set_peak_block called directly, as the wallet node does when it has     *)
(* chosen a peak itself.                                                   *)
(***************************************************************************)
\* The timestamps a caller passes: None, zero, and times before and after
\* those of the block tree.
Timestamps == {NoTimestamp, 0, 5, 20, 30}

set_peak_block_call(block, timestamp) ==
    /\ Install(set_peak_block(Self, block, timestamp))
    /\ last' = [Call("set_peak_block", block.header_hash, NoProof,
                     "ok", NoErr, FALSE) EXCEPT !.timestamp = timestamp]
    /\ UNCHANGED <<tasks, history, signer>>

\* set_peak_block calls, and restarts over what they persisted.
NextSetPeak ==
    \/ \E block \in HeaderBlocks, timestamp \in Timestamps :
          set_peak_block_call(block, timestamp)
    \/ create

SpecSetPeak == Init /\ [][NextSetPeak]_vars

(***************************************************************************)
(* Calls interleaved at their awaits.  A coroutine runs until it awaits    *)
(* the key/value store or the verifier; the store executes the requests in *)
(* the order they are made, so a write takes effect where it is awaited,   *)
(* and the caller resumes at some later time.  A task is the frame of a    *)
(* suspended call: its arguments, the await it waits at (pc) and the       *)
(* locals it reads after resuming.                                         *)
(***************************************************************************)
\* Calls made in one run.
MaxCalls == 3

\* At most two calls are in flight.
TaskIds == {1, 2}

Frame(op, hh, wp, supplied, pc, peak_local, fork_height, ts, validated) ==
    [op |-> op, block |-> hh, weight_proof |-> wp, supplied |-> supplied,
     pc |-> pc, peak |-> peak_local, fork_height |-> fork_height,
     timestamp |-> ts, validated |-> validated]

NoFrame == Frame("None", None, NoProof, FALSE, "done", None, 0, NoTimestamp,
                 FALSE)

\* The call returned or raised.
Done(out) ==
    [self |-> out.self, done |-> TRUE, result |-> out.result, err |-> out.err,
     validator_called |-> out.validator_called, frame |-> NoFrame]

\* The call waits at frame.pc.
Suspended(self, frame) ==
    [self |-> self, done |-> FALSE, result |-> "suspended", err |-> NoErr,
     validator_called |-> frame.validated, frame |-> frame]

\* receive_block from its entry to its first await or its return.
receive_block_begin(self0, block) ==
    IF contains_block(self0.block_records, block.header_hash)
    THEN Done(Outcome(self0, "ALREADY_HAVE_BLOCK", NoErr, FALSE))
    ELSE IF block.height # 0 /\ ParentMissing(self0, block)
    THEN Done(disconnected_block(self0))
    ELSE LET code == validation_error(validate_finished_header_block(block))
             rec == block_to_block_record(block)
             self == [self0 EXCEPT
                         !.block_records = add_block_record(@, rec)]
         IN IF code # NoErr
            THEN Done(Outcome(self0, "INVALID_BLOCK", code, TRUE))
            ELSE IF self.peak = None
            THEN LET ts == IF rec.is_transaction_block THEN rec.timestamp
                           ELSE NoTimestamp
                     s2 == [self EXCEPT !.height_to_hash =
                               Put(@, rec.height, Bytes32(rec.header_hash))]
                 IN Suspended(set_peak_block_write(s2, block),
                        Frame("receive_block", block.header_hash, NoProof,
                              FALSE, "set_object", None, 0, ts, TRUE))
            ELSE IF HeavierThanPeak(rec, HeaderBlock(self.peak))
            THEN LET fork ==
                         IF rec.prev_hash = self.peak
                         THEN [ok |-> TRUE,
                               height |-> HeaderBlock(self.peak).height]
                         ELSE find_fork_point_in_chain(self.block_records,
                                  rec, PeakAsRecord(self.peak))
                     rb == rollback_to_height(self, fork.height)
                 IN IF ~fork.ok
                    THEN Done(Outcome(self, "KeyError", NoErr, TRUE))
                    ELSE IF ~rb.ok
                    THEN Done(Outcome(rb.self, "KeyError", NoErr, TRUE))
                    ELSE Suspended(rb.self,
                             Frame("receive_block", block.header_hash,
                                   NoProof, FALSE, "remove_object", None,
                                   fork.height, NoTimestamp, TRUE))
            ELSE Done(Outcome(self, "ADDED_AS_ORPHAN", NoErr, TRUE))

\* new_weight_proof from the staleness guard to the await of
\* set_object("SYNCED_WEIGHT_PROOF"); peak_local is what get_peak_block
\* returned.
new_weight_proof_guard(self, weight_proof, supplied, peak_local) ==
    IF peak_local # None /\ NotHeavierProof(weight_proof, peak_local)
    THEN Done(Outcome(self, "ok", NoErr, FALSE))
    ELSE Suspended(persist_weight_proof(self, weight_proof),
                   Frame("new_weight_proof", None, weight_proof, supplied,
                         "set_object_proof", peak_local, 0, NoTimestamp,
                         FALSE))

\* new_weight_proof from its entry: get_peak_block returns at once when a
\* peak is in memory, and awaits get_object("PEAK_BLOCK") otherwise.
new_weight_proof_begin(self, weight_proof, supplied) ==
    IF self.peak # None
    THEN new_weight_proof_guard(self, weight_proof, supplied,
                                get_peak_block(self))
    ELSE Suspended(self,
             Frame("new_weight_proof", None, weight_proof, supplied,
                   "get_object", get_peak_block(self), 0, NoTimestamp, FALSE))

\* new_weight_proof from the loop over the records to the await in
\* set_peak_block.
new_weight_proof_ingest(self, frame) ==
    LET r == ingest_records(self,
                 validate_weight_proof(frame.weight_proof).records, 1,
                 frame.timestamp)
    IN Suspended(set_peak_block_write(r.self,
                                      HeaderBlock(frame.weight_proof.tail)),
                 [frame EXCEPT !.pc = "set_object",
                               !.block = frame.weight_proof.tail,
                               !.timestamp = r.ts])

\* A suspended call from the await it waits at to its next await or its
\* return.
resume_outcome(self, frame) ==
    IF frame.pc = "remove_object"
    THEN LET w == walk_new_path(self, BlockRecord(frame.block),
                                self.latest_timestamp, frame.fork_height)
         IN IF ~w.ok
            THEN Done(Outcome(w.self, "KeyError", NoErr, TRUE))
            ELSE Suspended(set_peak_block_write(w.self,
                                                HeaderBlock(frame.block)),
                           [frame EXCEPT !.pc = "set_object",
                                         !.timestamp = w.ts])
    ELSE IF frame.pc = "get_object"
    THEN new_weight_proof_guard(self, frame.weight_proof, frame.supplied,
                                frame.peak)
    ELSE IF frame.pc = "set_object_proof"
    THEN LET started == [frame EXCEPT !.timestamp = StartTimestamp(self)]
         IN IF frame.supplied
            THEN new_weight_proof_ingest(self, started)
            ELSE Suspended(self, [started EXCEPT
                                     !.pc = "validate_weight_proof",
                                     !.validated = TRUE])
    ELSE IF frame.pc = "validate_weight_proof"
    THEN IF VerifierFailed(frame.supplied,
                           validate_weight_proof(frame.weight_proof))
         THEN Done(Outcome(self, "AssertionError", NoErr, TRUE))
         ELSE new_weight_proof_ingest(self, frame)
    ELSE Done(Outcome(set_peak_block_assign(self, HeaderBlock(frame.block),
                                            frame.timestamp),
                      IF frame.op = "receive_block" THEN "NEW_PEAK" ELSE "ok",
                      NoErr, frame.validated))

\* The state after a segment of task id ran; starting says that the
\* segment is the first of its call.
Advance(id, seg, op, hh, weight_proof, starting) ==
    /\ Install(seg.self)
    /\ tasks' = IF seg.done THEN Del(tasks, {id}) ELSE Put(tasks, id, seg.frame)
    /\ last' = IF seg.done
                THEN Call(op, hh, weight_proof, seg.result, seg.err,
                          seg.validator_called)
                ELSE last
    /\ history' =
          [overlapped |-> history.overlapped
                              \/ (starting /\ DOMAIN tasks # {}),
           heaviest |-> IF seg.self.peak = None THEN history.heaviest
                        ELSE Max(history.heaviest,
                                 HeaderBlock(seg.self.peak).weight),
           calls |-> IF starting THEN history.calls + 1 ELSE history.calls]
    /\ UNCHANGED signer

FreeId == CHOOSE id \in TaskIds : id \notin DOMAIN tasks

CanCall == history.calls < MaxCalls /\ DOMAIN tasks # TaskIds

call_receive_block(block) ==
    /\ CanCall
    /\ Advance(FreeId, receive_block_begin(Self, block), "receive_block",
               block.header_hash, NoProof, TRUE)

call_new_weight_proof(weight_proof, supplied) ==
    /\ CanCall
    /\ supplied => weight_proof.valid
    /\ Advance(FreeId, new_weight_proof_begin(Self, weight_proof, supplied),
               "new_weight_proof", None, weight_proof, TRUE)

resume(id) ==
    /\ id \in DOMAIN tasks
    /\ Advance(id, resume_outcome(Self, tasks[id]), tasks[id].op,
               IF tasks[id].op = "receive_block" THEN tasks[id].block
               ELSE None,
               tasks[id].weight_proof, FALSE)

NextInterleaved ==
    \/ \E block \in HeaderBlocks : call_receive_block(block)
    \/ \E weight_proof \in WeightProofs, supplied \in BOOLEAN :
          call_new_weight_proof(weight_proof, supplied)
    \/ \E id \in TaskIds : resume(id)

SpecInterleaved == Init /\ [][NextInterleaved]_vars

(***************************************************************************)
(* Calls run one at a time on one instance, with a verifier that succeeds: *)
(* every weight proof handed to new_weight_proof is one it accepts.        *)
(***************************************************************************)
NextVerified ==
    \/ \E block \in HeaderBlocks : receive_block(block)
    \/ \E weight_proof \in {wp \in WeightProofs : wp.valid},
          supplied \in BOOLEAN :
          new_weight_proof(weight_proof, supplied)

SpecVerified == Init /\ [][NextVerified]_vars

(***************************************************************************)
(* A crash in the rollback window.  The process stops while receive_block  *)
(* is between remove_object("PEAK_BLOCK") in _rollback_to_height and the   *)
(* set_object of set_peak_block: the instance and the interrupted call are *)
(* lost, the store stays as the requests made so far left it, and the next *)
(* step is a create() over that store.                                     *)
(***************************************************************************)
\* What is left of a stopped process: nothing in memory, the store on disk.
stopped(store) ==
    [synced_weight_proof |-> NoProof,
     peak |-> None,
     height_to_hash |-> EmptyDict,
     block_records |-> EmptyDict,
     latest_timestamp |-> 0,
     basic_store |-> store]

\* receive_block(block) has reached the await of remove_object, and the
\* process stops before the call resumes.
crash(block) ==
    /\ Alive
    /\ LET seg == receive_block_begin(Self, block)
       IN /\ ~seg.done
          /\ seg.frame.pc = "remove_object"
          /\ Install(stopped(seg.self.basic_store))
          /\ last' = Call("crash", block.header_hash, NoProof, "stopped",
                          NoErr, seg.validator_called)
    /\ UNCHANGED <<tasks, history, signer>>

NextCrash ==
    \/ Next
    \/ \E block \in HeaderBlocks : crash(block)

SpecCrash == Init /\ [][NextCrash]_vars

(***************************************************************************)
(* The signer protocol (chia/wallet/util/signer_protocol.py): the global   *)
(* serialization mode and the with blocks that set it.                     *)
(***************************************************************************)
\* Depth to which with blocks are nested.
MaxDepth == 4

\* Variant: only the mode is restored on exit.
clvm_serialization_mode_exit_mode_only(frame) ==
    [mode |-> frame.old_mode, transport_layer |-> TRANSPORT_LAYER]

\* The statements of clvm_serialization_mode after its yield.
clvm_serialization_mode_exit(frame) ==
    [mode |-> frame.old_mode, transport_layer |-> frame.old_tl]

(***************************************************************************)
(* The wallet-API classes of the signer protocol and the classes of the    *)
(* blind signer transport layer (chia/wallet/util/blind_signer_tl.py).  An *)
(* object is its class and its fields by name.                             *)
(***************************************************************************)
\* Longest list in an object.
MaxListLen == 2

Bytes == {"a", "b"}
Hooks == {"h0", "h1"}
UInts == {1, 2}

Lists(S) == UNION {[1..n -> S] : n \in 0..MaxListLen}

SigningTarget(pubkey, message, hook) ==
    [class |-> "SigningTarget",
     fields |-> [pubkey |-> pubkey, message |-> message, hook |-> hook]]

SumHint(fingerprints, synthetic_offset) ==
    [class |-> "SumHint",
     fields |-> [fingerprints |-> fingerprints,
                 synthetic_offset |-> synthetic_offset]]

PathHint(root_fingerprint, path) ==
    [class |-> "PathHint",
     fields |-> [root_fingerprint |-> root_fingerprint, path |-> path]]

KeyHints(sum_hints, path_hints) ==
    [class |-> "KeyHints",
     fields |-> [sum_hints |-> sum_hints, path_hints |-> path_hints]]

SigningInstructions(key_hints, targets) ==
    [class |-> "SigningInstructions",
     fields |-> [key_hints |-> key_hints, targets |-> targets]]

SigningResponse(signature, hook) ==
    [class |-> "SigningResponse",
     fields |-> [signature |-> signature, hook |-> hook]]

BSTLSigningTarget(pubkey, message, hook) ==
    [class |-> "BSTLSigningTarget",
     fields |-> [pubkey |-> pubkey, message |-> message, hook |-> hook]]

BSTLSumHint(fingerprints, synthetic_offset) ==
    [class |-> "BSTLSumHint",
     fields |-> [fingerprints |-> fingerprints,
                 synthetic_offset |-> synthetic_offset]]

BSTLPathHint(root_fingerprint, path) ==
    [class |-> "BSTLPathHint",
     fields |-> [root_fingerprint |-> root_fingerprint, path |-> path]]

BSTLSigningInstructions(sum_hints, path_hints, targets) ==
    [class |-> "BSTLSigningInstructions",
     fields |-> [sum_hints |-> sum_hints, path_hints |-> path_hints,
                 targets |-> targets]]

BSTLSigningResponse(signature, hook) ==
    [class |-> "BSTLSigningResponse",
     fields |-> [signature |-> signature, hook |-> hook]]

\* The names of the dataclass fields of a class.
FieldsOf(class) ==
    IF class \in {"SigningTarget", "BSTLSigningTarget"}
    THEN {"pubkey", "message", "hook"}
    ELSE IF class \in {"SumHint", "BSTLSumHint"}
    THEN {"fingerprints", "synthetic_offset"}
    ELSE IF class \in {"PathHint", "BSTLPathHint"}
    THEN {"root_fingerprint", "path"}
    ELSE IF class \in {"SigningResponse", "BSTLSigningResponse"}
    THEN {"signature", "hook"}
    ELSE IF class = "KeyHints" THEN {"sum_hints", "path_hints"}
    ELSE IF class = "SigningInstructions" THEN {"key_hints", "targets"}
    ELSE {"sum_hints", "path_hints", "targets"}

\* dataclasses.asdict of an object whose fields hold no objects.
asdict(instance) == instance.fields

\* class(**kwargs): every field of the class is taken from kwargs by name.
FromKeywords(class, kwargs) ==
    [class |-> class, fields |-> [f \in FieldsOf(class) |-> kwargs[f]]]

\* [class(**asdict(x)) for x in list]
EachFromKeywords(class, list) ==
    [i \in DOMAIN list |-> FromKeywords(class, asdict(list[i]))]

BSTLSigningTarget_from_wallet_api(_from) ==
    FromKeywords("BSTLSigningTarget", asdict(_from))
BSTLSigningTarget_to_wallet_api(_from) ==
    FromKeywords("SigningTarget", asdict(_from))

BSTLSumHint_from_wallet_api(_from) ==
    FromKeywords("BSTLSumHint", asdict(_from))
BSTLSumHint_to_wallet_api(_from) == FromKeywords("SumHint", asdict(_from))

BSTLPathHint_from_wallet_api(_from) ==
    FromKeywords("BSTLPathHint", asdict(_from))
BSTLPathHint_to_wallet_api(_from) == FromKeywords("PathHint", asdict(_from))

BSTLSigningInstructions_from_wallet_api(_from) ==
    BSTLSigningInstructions(
        EachFromKeywords("BSTLSumHint",
                         _from.fields.key_hints.fields.sum_hints),
        EachFromKeywords("BSTLPathHint",
                         _from.fields.key_hints.fields.path_hints),
        EachFromKeywords("BSTLSigningTarget", _from.fields.targets))

\* Variant: the path hints are dropped on the way back.
BSTLSigningInstructions_to_wallet_api_no_paths(_from) ==
    SigningInstructions(
        KeyHints(EachFromKeywords("SumHint", _from.fields.sum_hints), <<>>),
        EachFromKeywords("SigningTarget", _from.fields.targets))

BSTLSigningInstructions_to_wallet_api(_from) ==
    SigningInstructions(
        KeyHints(EachFromKeywords("SumHint", _from.fields.sum_hints),
                 EachFromKeywords("PathHint", _from.fields.path_hints)),
        EachFromKeywords("SigningTarget", _from.fields.targets))

BSTLSigningResponse_from_wallet_api(_from) ==
    FromKeywords("BSTLSigningResponse", asdict(_from))
BSTLSigningResponse_to_wallet_api(_from) ==
    FromKeywords("SigningResponse", asdict(_from))

\* TransportLayerMapping(from_type, to_type, to_type.from_wallet_api,
\* to_type.to_wallet_api); the two functions are named by their class.
TransportLayerMapping(from_type, to_type) ==
    [from_type |-> from_type, to_type |-> to_type,
     serialize_function |-> to_type, deserialize_function |-> to_type]

\* mapping.serialize_function(instance)
serialize_function(mapping, instance) ==
    IF mapping.serialize_function = "BSTLSigningTarget"
    THEN BSTLSigningTarget_from_wallet_api(instance)
    ELSE IF mapping.serialize_function = "BSTLSumHint"
    THEN BSTLSumHint_from_wallet_api(instance)
    ELSE IF mapping.serialize_function = "BSTLPathHint"
    THEN BSTLPathHint_from_wallet_api(instance)
    ELSE IF mapping.serialize_function = "BSTLSigningInstructions"
    THEN BSTLSigningInstructions_from_wallet_api(instance)
    ELSE BSTLSigningResponse_from_wallet_api(instance)

\* mapping.deserialize_function(instance)
deserialize_function(mapping, instance) ==
    IF mapping.deserialize_function = "BSTLSigningTarget"
    THEN BSTLSigningTarget_to_wallet_api(instance)
    ELSE IF mapping.deserialize_function = "BSTLSumHint"
    THEN BSTLSumHint_to_wallet_api(instance)
    ELSE IF mapping.deserialize_function = "BSTLPathHint"
    THEN BSTLPathHint_to_wallet_api(instance)
    ELSE IF mapping.deserialize_function = "BSTLSigningInstructions"
    THEN BSTLSigningInstructions_to_wallet_api(instance)
    ELSE BSTLSigningResponse_to_wallet_api(instance)

BLIND_SIGNER_TRANSPORT ==
    [name |-> "BLIND_SIGNER_TRANSPORT",
     type_mappings |->
        <<TransportLayerMapping("SigningTarget", "BSTLSigningTarget"),
          TransportLayerMapping("SumHint", "BSTLSumHint"),
          TransportLayerMapping("PathHint", "BSTLPathHint"),
          TransportLayerMapping("SigningInstructions",
                                "BSTLSigningInstructions"),
          TransportLayerMapping("SigningResponse", "BSTLSigningResponse")>>]

\* [m for m in self.type_mappings if m.from_type == _type]
MappingsFrom(layer, _type) ==
    SelectSeq(layer.type_mappings, LAMBDA m : m.from_type = _type)

\* [m for m in self.type_mappings if m.to_type == _type]
MappingsTo(layer, _type) ==
    SelectSeq(layer.type_mappings, LAMBDA m : m.to_type = _type)

\* get_mapping returned None.
NoMapping == TransportLayerMapping("None", "None")

\* TransportLayer.get_mapping; ok is FALSE for the RuntimeError of a layer
\* with more than one mapping of the type.
get_mapping(layer, _type) ==
    LET mappings == MappingsFrom(layer, _type)
    IN IF Len(mappings) = 1
       THEN [ok |-> TRUE, value |-> mappings[1]]
       ELSE IF Len(mappings) = 0
       THEN [ok |-> TRUE, value |-> NoMapping]
       ELSE [ok |-> FALSE, value |-> NoMapping]

\* Variant: with several mappings of the class the first one is used.
serialize_for_transport_first_match(layer, instance) ==
    LET mappings == MappingsFrom(layer, instance.class)
    IN IF Len(mappings) >= 1
       THEN [ok |-> TRUE, value |-> serialize_function(mappings[1], instance)]
       ELSE [ok |-> TRUE, value |-> instance]

\* TransportLayer.serialize_for_transport; ok is FALSE for the
\* RuntimeError of a layer with two mappings of the class.
serialize_for_transport(layer, instance) ==
    LET mappings == MappingsFrom(layer, instance.class)
    IN IF Len(mappings) = 1
       THEN [ok |-> TRUE, value |-> serialize_function(mappings[1], instance)]
       ELSE IF Len(mappings) = 0
       THEN [ok |-> TRUE, value |-> instance]
       ELSE [ok |-> FALSE, value |-> NoObject]

\* TransportLayer.deserialize_from_transport
deserialize_from_transport(layer, instance) ==
    LET mappings == MappingsTo(layer, instance.class)
    IN IF Len(mappings) = 1
       THEN [ok |-> TRUE,
             value |-> deserialize_function(mappings[1], instance)]
       ELSE IF Len(mappings) = 0
       THEN [ok |-> TRUE, value |-> instance]
       ELSE [ok |-> FALSE, value |-> NoObject]

\* The wallet-API objects sent through the layer.
SigningTargets ==
    {SigningTarget(p, m, h) : p \in Bytes, m \in Bytes, h \in Hooks}
SumHints == {SumHint(f, o) : f \in Lists(Bytes), o \in Bytes}
PathHints == {PathHint(r, q) : r \in Bytes, q \in Lists(UInts)}
SigningResponses == {SigningResponse(g, h) : g \in Bytes, h \in Hooks}

\* The hints and targets the signing instructions are made of.
SomeSumHints == {SumHint(<<"a", "b">>, "a"), SumHint(<<"b">>, "b")}
SomePathHints == {PathHint("a", <<1, 2>>), PathHint("b", <<2>>)}
SomeTargets ==
    {SigningTarget("a", "b", "h0"), SigningTarget("b", "a", "h1")}

AllSigningInstructions ==
    {SigningInstructions(KeyHints(sh, ph), t) :
        sh \in Lists(SomeSumHints), ph \in Lists(SomePathHints),
        t \in Lists(SomeTargets)}

WalletObjects ==
    SigningTargets \cup SumHints \cup PathHints \cup SigningResponses
        \cup AllSigningInstructions

\* with clvm_serialization_mode(use, transport_layer): the statements
\* before the yield.
enter_clvm_serialization_mode(use, transport_layer) ==
    /\ Len(with_blocks) < MaxDepth
    /\ with_blocks' = Append(with_blocks,
                             [old_mode |-> USE_CLVM_SERIALIZATION,
                              old_tl |-> TRANSPORT_LAYER,
                              mode_on_entry |-> USE_CLVM_SERIALIZATION,
                              tl_on_entry |-> TRANSPORT_LAYER])
    /\ USE_CLVM_SERIALIZATION' = use
    /\ TRANSPORT_LAYER' = transport_layer
    /\ last' = Call("clvm_serialization_mode.enter", None, NoProof, "ok",
                    NoErr, FALSE)
    /\ UNCHANGED <<wallet, tasks, history, transport>>

\* The body of the innermost with block ends without an exception.
exit_clvm_serialization_mode ==
    /\ with_blocks # <<>>
    /\ LET restored ==
               clvm_serialization_mode_exit(with_blocks[Len(with_blocks)])
       IN /\ USE_CLVM_SERIALIZATION' = restored.mode
          /\ TRANSPORT_LAYER' = restored.transport_layer
    /\ with_blocks' = SubSeq(with_blocks, 1, Len(with_blocks) - 1)
    /\ last' = Call("clvm_serialization_mode.exit", None, NoProof, "ok",
                    NoErr, FALSE)
    /\ UNCHANGED <<wallet, tasks, history, transport>>

\* The body of the innermost with block raises.  contextmanager throws the
\* exception into the generator at its yield; the yield is not inside a
\* try/finally, so the two assignments after it do not run and the
\* exception leaves the block with the globals as the body left them.
raise_in_clvm_serialization_mode ==
    /\ with_blocks # <<>>
    /\ with_blocks' = SubSeq(with_blocks, 1, Len(with_blocks) - 1)
    /\ last' = Call("clvm_serialization_mode.raise", None, NoProof,
                    "Exception", NoErr, FALSE)
    /\ UNCHANGED <<wallet, tasks, history, transport,
                   USE_CLVM_SERIALIZATION, TRANSPORT_LAYER>>

NextNesting ==
    \/ \E use \in BOOLEAN,
          transport_layer \in {NoLayer, BLIND_SIGNER_TRANSPORT} :
          enter_clvm_serialization_mode(use, transport_layer)
    \/ exit_clvm_serialization_mode

SpecNesting == Init /\ [][NextNesting]_vars

\* With blocks whose bodies end with or without an exception; an exception
\* that is not caught leaves the enclosing block by the same step.
NextRaising ==
    \/ NextNesting
    \/ raise_in_clvm_serialization_mode

SpecRaising == Init /\ [][NextRaising]_vars

\* BLIND_SIGNER_TRANSPORT.serialize_for_transport(instance)
serialize_call(instance) ==
    /\ transport.step = "idle"
    /\ transport' =
          [step |-> "serialized", instance |-> instance,
           sent |-> serialize_for_transport(BLIND_SIGNER_TRANSPORT, instance),
           received |-> NoResult]
    /\ UNCHANGED <<wallet, last, tasks, history, USE_CLVM_SERIALIZATION,
                   TRANSPORT_LAYER, with_blocks>>

\* BLIND_SIGNER_TRANSPORT.deserialize_from_transport of what was sent.
deserialize_call ==
    /\ transport.step = "serialized"
    /\ transport.sent.ok
    /\ transport' =
          [transport EXCEPT
              !.step = "deserialized",
              !.received = deserialize_from_transport(BLIND_SIGNER_TRANSPORT,
                                                      transport.sent.value)]
    /\ UNCHANGED <<wallet, last, tasks, history, USE_CLVM_SERIALIZATION,
                   TRANSPORT_LAYER, with_blocks>>

NextTransport ==
    \/ \E instance \in WalletObjects : serialize_call(instance)
    \/ deserialize_call

SpecTransport == Init /\ [][NextTransport]_vars

(***************************************************************************)
(* The lookup of a TransportLayer, on layers with no, one and several      *)
(* mappings of a class.                                                    *)
(***************************************************************************)
\* TransportLayer([]): no mapping at all.
EMPTY_TRANSPORT == [name |-> "EMPTY_TRANSPORT", type_mappings |-> <<>>]

\* A layer that lists the mapping of SigningTarget twice.
DUPLICATED_TRANSPORT ==
    [name |-> "DUPLICATED_TRANSPORT",
     type_mappings |->
        BLIND_SIGNER_TRANSPORT.type_mappings
            \o <<TransportLayerMapping("SigningTarget",
                                       "BSTLSigningTarget")>>]

\* A layer with two mappings from SumHint, to different classes.
SPLIT_TRANSPORT ==
    [name |-> "SPLIT_TRANSPORT",
     type_mappings |->
        <<TransportLayerMapping("SumHint", "BSTLSumHint"),
          TransportLayerMapping("SumHint", "BSTLPathHint"),
          TransportLayerMapping("SigningResponse", "BSTLSigningResponse")>>]

TransportLayers ==
    {BLIND_SIGNER_TRANSPORT, EMPTY_TRANSPORT, DUPLICATED_TRANSPORT,
     SPLIT_TRANSPORT}

\* The objects handed to a layer: wallet-API objects and transport objects.
TransportObjects ==
    {BSTLSigningTarget(p, q, h) : p \in Bytes, q \in Bytes, h \in Hooks}
        \cup {BSTLSumHint(f, o) : f \in Lists(Bytes), o \in Bytes}
        \cup {BSTLPathHint(r, q) : r \in Bytes, q \in Lists(UInts)}
        \cup {BSTLSigningResponse(g, h) : g \in Bytes, h \in Hooks}

LookupObjects ==
    SigningTargets \cup SumHints \cup PathHints \cup SigningResponses
        \cup TransportObjects

\* The classes get_mapping is asked for; Coin is in no layer.
LookupTypes == {x.class : x \in LookupObjects} \cup {"Coin"}

\* The record of one call on a layer: the layer, the argument and what the
\* call returned (ok is FALSE when it raised RuntimeError).
Lookup(step, layer, instance, result) ==
    [step |-> step, layer |-> layer, instance |-> instance,
     result |-> result]

\* layer.get_mapping(_type)
get_mapping_call(layer, _type) ==
    /\ transport.step = "idle"
    /\ transport' = Lookup("get_mapping", layer,
                           [class |-> _type, fields |-> [none |-> 0]],
                           get_mapping(layer, _type))
    /\ UNCHANGED <<wallet, last, tasks, history, USE_CLVM_SERIALIZATION,
                   TRANSPORT_LAYER, with_blocks>>

\* layer.serialize_for_transport(instance)
serialize_for_transport_call(layer, instance) ==
    /\ transport.step = "idle"
    /\ transport' = Lookup("serialize_for_transport", layer, instance,
                           serialize_for_transport(layer, instance))
    /\ UNCHANGED <<wallet, last, tasks, history, USE_CLVM_SERIALIZATION,
                   TRANSPORT_LAYER, with_blocks>>

\* layer.deserialize_from_transport(instance)
deserialize_from_transport_call(layer, instance) ==
    /\ transport.step = "idle"
    /\ transport' = Lookup("deserialize_from_transport", layer, instance,
                           deserialize_from_transport(layer, instance))
    /\ UNCHANGED <<wallet, last, tasks, history, USE_CLVM_SERIALIZATION,
                   TRANSPORT_LAYER, with_blocks>>

NextLookup ==
    \/ \E layer \in TransportLayers, _type \in LookupTypes :
          get_mapping_call(layer, _type)
    \/ \E layer \in TransportLayers, instance \in LookupObjects :
          serialize_for_transport_call(layer, instance)
    \/ \E layer \in TransportLayers, instance \in LookupObjects :
          deserialize_from_transport_call(layer, instance)

SpecLookup == Init /\ [][NextLookup]_vars

(***************************************************************************)
(* Properties                                                              *)
(***************************************************************************)
Weight(hh) == HeaderBlock(hh).weight
Height(hh) == HeaderBlock(hh).height

ResultCodes ==
    {"ALREADY_HAVE_BLOCK", "DISCONNECTED_BLOCK", "INVALID_BLOCK", "NEW_PEAK",
     "ADDED_AS_ORPHAN"}

\* The block at height h of the chain that ends in hh.
OnChain(hh, h) == PathTo(hh)[h + 1]

\* Height of the highest common ancestor of a and b in the block tree.
TreeForkHeight(a, b) ==
    LET common == {h \in 0..Height(a) :
                      h <= Height(b) /\ OnChain(a, h) = OnChain(b, h)}
    IN IF common = {} THEN -1
       ELSE CHOOSE h \in common : \A k \in common : k <= h

\* The height-index entry at height h is the same before and after a step.
SameEntry(h) ==
    /\ h \in DOMAIN height_to_hash <=> h \in DOMAIN height_to_hash'
    /\ h \in DOMAIN height_to_hash => height_to_hash'[h] = height_to_hash[h]

\* C1: in a receive_block call the weight of the peak never decreases, and
\* the peak is replaced only by the received block and only if there was no
\* peak or the block is strictly heavier than the previous peak.
C1_PeakWeightMonotonic ==
    [][last'.op = "receive_block" =>
          /\ peak # None => (peak' # None /\ Weight(peak') >= Weight(peak))
          /\ peak' # peak =>
                /\ peak' = last'.block
                /\ peak = None \/ Weight(peak') > Weight(peak)]_vars

C1_Witness ==
    /\ last.op = "receive_block"
    /\ last.result = "NEW_PEAK"
    /\ peak = last.block
    /\ Height(peak) >= 2

\* The height index has, for every height up to the peak's, the hash of the
\* block of the peak's chain at that height.
IndexFollowsPeak ==
    \A h \in 0..Height(peak) :
        /\ h \in DOMAIN height_to_hash
        /\ height_to_hash[h] = Bytes32(OnChain(peak, h))

\* C2: after every receive_block or new_weight_proof call that changed the
\* peak, every height from 0 to the peak's height has an entry in the height
\* index, and it is the hash of the peak's ancestor at that height.
C2_HeightIndexFollowsPeak ==
    [][(last'.op \in {"receive_block", "new_weight_proof"} /\ peak' # peak)
          => IndexFollowsPeak']_vars

\* C3: when receive_block adopts a direct child of the peak (peak at height
\* n), the entries at heights <= n are unchanged, the old peak's entry at n
\* is still present, and the entry at n+1 is the new block's hash.
C3_DirectChildKeepsEntries ==
    [][(/\ last'.op = "receive_block"
        /\ last'.result = "NEW_PEAK"
        /\ peak # None
        /\ prev_header_hash_of(last'.block) = peak)
          => /\ \A h \in 0..Height(peak) : SameEntry(h)
             /\ Height(peak) \in DOMAIN height_to_hash'
             /\ Height(peak) + 1 \in DOMAIN height_to_hash'
             /\ height_to_hash'[Height(peak) + 1] = Bytes32(last'.block)]_vars

\* C4: when receive_block adopts the tip of a chain B that forks from the
\* peak's chain A at height f, the entries at heights <= f are unchanged,
\* every height in (f, height of B's tip] maps to B's block, no entry remains
\* above B's tip, and the discarded blocks of A are still in the block-record
\* index but no longer in the height index.
C4_ReorgRewritesIndex ==
    [][(/\ last'.op = "receive_block"
        /\ last'.result = "NEW_PEAK"
        /\ peak # None
        /\ prev_header_hash_of(last'.block) # peak)
          => LET f == TreeForkHeight(last'.block, peak)
             IN /\ \A h \in 0..f : SameEntry(h)
                /\ \A h \in (f + 1)..Height(last'.block) :
                      /\ h \in DOMAIN height_to_hash'
                      /\ height_to_hash'[h] = Bytes32(OnChain(last'.block, h))
                /\ \A h \in DOMAIN height_to_hash' : h <= Height(last'.block)
                /\ \A h \in (f + 1)..Height(peak) :
                      /\ OnChain(peak, h) \in DOMAIN block_records'
                      /\ \A k \in DOMAIN height_to_hash' :
                            height_to_hash'[k].header_hash # OnChain(peak, h)
            ]_vars

\* C5: every value of the height index is the header hash of a block record
\* that is in the block-record index and has that height.
C5_IndexHoldsHashes ==
    \A h \in DOMAIN height_to_hash :
        /\ height_to_hash[h].type = "bytes32"
        /\ height_to_hash[h].header_hash \in DOMAIN block_records
        /\ block_records[height_to_hash[h].header_hash].height = h

\* C6: every receive_block call on an instance created from an empty store
\* ends with one of the five result codes; none aborts on a lookup failure.
C6_AlwaysResultCode ==
    last.op = "receive_block" => last.result \in ResultCodes

\* The second of two receive_block(block) calls in a row, made in the
\* current state, returns ALREADY_HAVE_BLOCK and changes nothing.
SecondCallIsNoOp(block) ==
    LET first == receive_block_outcome(Self, block)
        second == receive_block_outcome(first.self, block)
    IN /\ second.result = "ALREADY_HAVE_BLOCK"
       /\ second.self = first.self

\* C7 as stated: for every header block, in every reachable state, the
\* second of two receive_block calls in a row returns ALREADY_HAVE_BLOCK and
\* changes nothing.
C7_SecondCallAlwaysAlreadyHave ==
    Alive => \A block \in HeaderBlocks : SecondCallIsNoOp(block)

\* The second of two receive_block(block) calls in a row, made in the
\* current state, ends as the first did and changes nothing.
SecondCallRepeats(block) ==
    LET first == receive_block_outcome(Self, block)
        second == receive_block_outcome(first.self, block)
    IN /\ second.result = first.result
       /\ second.err = first.err
       /\ second.self = first.self

\* C7 amended: the second of two receive_block(b) calls in a row returns
\* ALREADY_HAVE_BLOCK and changes nothing whenever the first call returned
\* NEW_PEAK, ADDED_AS_ORPHAN or ALREADY_HAVE_BLOCK; after a first call that
\* returned DISCONNECTED_BLOCK or INVALID_BLOCK the second call returns that
\* result again, and changes nothing either.
C7_SecondCallAfterInsert ==
    Alive => \A block \in HeaderBlocks :
        LET first == receive_block_outcome(Self, block).result
        IN /\ first \in {"NEW_PEAK", "ADDED_AS_ORPHAN", "ALREADY_HAVE_BLOCK"}
                => SecondCallIsNoOp(block)
           /\ first \in {"DISCONNECTED_BLOCK", "INVALID_BLOCK"}
                => SecondCallRepeats(block)

C7_Witness ==
    /\ last.op = "receive_block"
    /\ last.result = "ALREADY_HAVE_BLOCK"
    /\ last.block = peak

\* C8: receive_block of a block whose hash is already in the block-record
\* index returns (ALREADY_HAVE_BLOCK, no error) without calling the
\* validator and leaves the whole state unchanged.
C8_AlreadyHaveIsNoOp ==
    [][(last'.op = "receive_block" /\ last'.block \in DOMAIN block_records)
          => /\ last'.result = "ALREADY_HAVE_BLOCK"
             /\ last'.err = NoErr
             /\ ~last'.validator_called
             /\ UNCHANGED <<memory, basic_store>>]_vars

\* A block that is in the index and heavier than the peak was delivered again.
C8_Witness ==
    /\ last.op = "receive_block"
    /\ last.result = "ALREADY_HAVE_BLOCK"
    /\ peak # None
    /\ Weight(last.block) > Weight(peak)

\* C9: receive_block of an unknown block of height > 0 whose parent is not in
\* the block-record index returns (DISCONNECTED_BLOCK,
\* INVALID_PREV_BLOCK_HASH) without calling the validator and changes nothing.
C9_DisconnectedIsNoOp ==
    [][(/\ last'.op = "receive_block"
        /\ last'.block \notin DOMAIN block_records
        /\ Height(last'.block) > 0
        /\ prev_header_hash_of(last'.block) \notin DOMAIN block_records)
          => /\ last'.result = "DISCONNECTED_BLOCK"
             /\ last'.err = "INVALID_PREV_BLOCK_HASH"
             /\ ~last'.validator_called
             /\ UNCHANGED <<memory, basic_store>>]_vars

C9_Witness ==
    /\ last.op = "receive_block"
    /\ last.result = "DISCONNECTED_BLOCK"
    /\ peak # None

\* C10: a receive_block call that returns INVALID_BLOCK or DISCONNECTED_BLOCK
\* leaves the block-record index, the height index, the peak, the latest
\* timestamp and the persisted PEAK_BLOCK as they were, and entries are
\* deleted from the height index only in a call that returns NEW_PEAK.
C10_NoPartialInsert ==
    [][last'.op = "receive_block" =>
          /\ last'.result \in {"INVALID_BLOCK", "DISCONNECTED_BLOCK"}
                => UNCHANGED <<block_records, height_to_hash, peak,
                               latest_timestamp, basic_store>>
          /\ (\E h \in DOMAIN height_to_hash : h \notin DOMAIN height_to_hash')
                => last'.result = "NEW_PEAK"]_vars

\* The header validator accepts the block and its parent, if it needs one,
\* is in the block-record index.
Validates(hh) ==
    /\ hh \notin DOMAIN block_records
    /\ hh \notin Rejected
    /\ Height(hh) = 0 \/ prev_header_hash_of(hh) \in DOMAIN block_records

\* C11: when a peak exists and a validated new block is not heavier than the
\* peak (ties included), receive_block returns ADDED_AS_ORPHAN, adds the
\* block's record to the block-record index and leaves the peak, the height
\* index, the latest timestamp and the persisted PEAK_BLOCK unchanged.
C11_NotHeavierIsOrphan ==
    [][(/\ last'.op = "receive_block"
        /\ Validates(last'.block)
        /\ peak # None
        /\ Weight(last'.block) <= Weight(peak))
          => /\ last'.result = "ADDED_AS_ORPHAN"
             /\ last'.err = NoErr
             /\ block_records' =
                   Put(block_records, last'.block, BlockRecord(last'.block))
             /\ UNCHANGED <<peak, height_to_hash, latest_timestamp,
                            basic_store>>]_vars

\* A block exactly as heavy as the peak was added as an orphan.
C11_Witness ==
    /\ last.op = "receive_block"
    /\ last.result = "ADDED_AS_ORPHAN"
    /\ peak # None
    /\ last.block # peak
    /\ Weight(last.block) = Weight(peak)

\* The proof's tail is not heavier than the current peak.
StaleProof(weight_proof) ==
    peak # None /\ Weight(weight_proof.tail) <= Weight(peak)

\* C12: when a peak exists and the proof's tail is not heavier than the peak,
\* new_weight_proof returns without calling the verifier and leaves the peak,
\* both indices, the latest timestamp, synced_weight_proof and the persisted
\* objects unchanged.
C12_StaleProofIsNoOp ==
    [][(last'.op = "new_weight_proof" /\ StaleProof(last'.weight_proof))
          => /\ last'.result = "ok"
             /\ ~last'.validator_called
             /\ UNCHANGED <<memory, basic_store>>]_vars

\* A stale proof other than the stored one was offered and not stored.
C12_Witness ==
    /\ last.op = "new_weight_proof"
    /\ StaleProof(last.weight_proof)
    /\ synced_weight_proof # last.weight_proof
    /\ basic_store.SYNCED_WEIGHT_PROOF # last.weight_proof

\* The records the verifier returns for a proof, as a set.
RecordsOf(weight_proof) ==
    {validate_weight_proof(weight_proof).records[i] :
        i \in DOMAIN validate_weight_proof(weight_proof).records}

\* C13: whenever a weight proof is persisted, after create() returns the
\* block-record index contains every record of that proof and the height
\* index maps each of their heights, also when a PEAK_BLOCK is persisted too.
C13_CreateRebuildsIndex ==
    (/\ last.op = "create"
     /\ last.result = "ok"
     /\ basic_store.SYNCED_WEIGHT_PROOF # NoProof)
    => \A rec \in RecordsOf(basic_store.SYNCED_WEIGHT_PROOF) :
          /\ rec.header_hash \in DOMAIN block_records
          /\ rec.height \in DOMAIN height_to_hash

\* C14: in every state between operations in which a peak is set, the peak's
\* header hash is in the block-record index.
C14_PeakIsIndexed ==
    (Alive /\ peak # None) => peak \in DOMAIN block_records

\* C15: after create() and after every new_weight_proof or receive_block
\* call, the object stored under PEAK_BLOCK is the in-memory peak (both
\* absent, or the same header block).
C15_PersistedPeakIsPeak ==
    basic_store.PEAK_BLOCK = peak

\* A reorg, which removes PEAK_BLOCK and writes it again, has completed.
C15_Witness ==
    /\ last.op = "receive_block"
    /\ last.result = "NEW_PEAK"
    /\ peak = last.block
    /\ basic_store.PEAK_BLOCK = last.block
    /\ Height(peak) >= 1
    /\ prev_header_hash_of(peak) \in DOMAIN block_records
    /\ \E h \in DOMAIN height_to_hash :
          /\ h < Height(peak)
          /\ height_to_hash[h].type = "BlockRecord"

\* C16: across receive_block and new_weight_proof calls the latest timestamp
\* never decreases.
C16_TimestampNeverDecreases ==
    [][last'.op \in {"receive_block", "new_weight_proof"}
          => latest_timestamp' >= latest_timestamp]_vars

\* A proof was accepted whose tail is a transaction block older than the
\* latest timestamp.
C16_Witness ==
    /\ last.op = "new_weight_proof"
    /\ last.result = "ok"
    /\ peak = last.weight_proof.tail
    /\ timestamp_of(peak) # NoTimestamp
    /\ latest_timestamp > timestamp_of(peak)

\* C17: on an empty instance a genesis block is answered NEW_PEAK; then a
\* heavier child of it is answered NEW_PEAK and the peak height becomes 1;
\* then another, lighter child of the genesis block is answered
\* ADDED_AS_ORPHAN and the peak stays the first child.
C17_Scenario ==
    [][last'.op = "receive_block" =>
          /\ (/\ peak = None
              /\ block_records = EmptyDict
              /\ Height(last'.block) = 0
              /\ Validates(last'.block))
                => /\ last'.result = "NEW_PEAK"
                   /\ peak' = last'.block
          /\ (/\ peak # None
              /\ Height(peak) = 0
              /\ DOMAIN block_records = {peak}
              /\ prev_header_hash_of(last'.block) = peak
              /\ Validates(last'.block)
              /\ Weight(last'.block) > Weight(peak))
                => /\ last'.result = "NEW_PEAK"
                   /\ peak' = last'.block
                   /\ get_peak_height(Self)' = 1
          /\ (/\ peak # None
              /\ Height(peak) = 1
              /\ DOMAIN block_records = {prev_header_hash_of(peak), peak}
              /\ prev_header_hash_of(last'.block) = prev_header_hash_of(peak)
              /\ last'.block # peak
              /\ Validates(last'.block)
              /\ Weight(last'.block) < Weight(peak))
                => /\ last'.result = "ADDED_AS_ORPHAN"
                   /\ peak' = peak
                   /\ get_peak_height(Self)' = 1]_vars

\* The three calls of the scenario were made.
C17_Witness ==
    /\ last.op = "receive_block"
    /\ last.result = "ADDED_AS_ORPHAN"
    /\ last.block = <<"S", 1>>
    /\ peak = <<"A", 1>>
    /\ DOMAIN block_records = {<<"A", 0>>, <<"A", 1>>, <<"S", 1>>}
    /\ get_peak_height(Self) = 1

\* C18: new_weight_proof on an instance with no peak, for a proof the
\* verifier accepts: afterwards the peak is the proof's tail, the proof is
\* persisted, the height index has exactly one entry per height of the
\* verified records, each the record's header hash, and every record is in
\* the block-record index.
C18_ProofWithoutPeak ==
    [][(/\ last'.op = "new_weight_proof"
        /\ get_peak_block(Self) = None
        /\ last'.weight_proof.valid)
          => /\ last'.result = "ok"
             /\ peak' = last'.weight_proof.tail
             /\ synced_weight_proof' = last'.weight_proof
             /\ basic_store'.SYNCED_WEIGHT_PROOF = last'.weight_proof
             /\ DOMAIN height_to_hash' =
                   {rec.height : rec \in RecordsOf(last'.weight_proof)}
             /\ \A rec \in RecordsOf(last'.weight_proof) :
                   /\ height_to_hash'[rec.height] = Bytes32(rec.header_hash)
                   /\ rec.header_hash \in DOMAIN block_records'
                   /\ block_records'[rec.header_hash] = rec]_vars

\* A proof whose records start above genesis was ingested without a peak.
C18_Witness ==
    /\ last.op = "new_weight_proof"
    /\ last.result = "ok"
    /\ last.weight_proof.first = 1
    /\ peak = last.weight_proof.tail
    /\ DOMAIN height_to_hash = 1..Height(peak)
    /\ DOMAIN block_records = {OnChain(peak, h) : h \in 1..Height(peak)}

\* C19: after new_weight_proof replaced an older peak, the height index has
\* no entry above the new peak's height and every entry maps to the block of
\* the new peak's chain at that height.
C19_ProofReplacesIndex ==
    [][(last'.op = "new_weight_proof" /\ peak # None /\ peak' # peak)
          => \A h \in DOMAIN height_to_hash' :
                /\ h <= Height(peak')
                /\ height_to_hash'[h].header_hash = OnChain(peak', h)]_vars

\* C20: when the verifier rejects the proof, new_weight_proof raises and the
\* block-record index, the height index, the in-memory peak, the persisted
\* PEAK_BLOCK and the latest timestamp are as before.
C20_FailedVerificationRaises ==
    [][(/\ last'.op = "new_weight_proof"
        /\ ~last'.weight_proof.valid
        /\ ~StaleProof(last'.weight_proof))
          => /\ last'.result = "AssertionError"
             /\ last'.validator_called
             /\ UNCHANGED <<block_records, height_to_hash, peak,
                            latest_timestamp>>
             /\ basic_store'.PEAK_BLOCK = basic_store.PEAK_BLOCK]_vars

\* The verifier rejected a proof offered to an instance that has a peak.
C20_Witness ==
    /\ last.op = "new_weight_proof"
    /\ last.result = "AssertionError"
    /\ ~last.weight_proof.valid
    /\ peak # None
    /\ peak # last.weight_proof.tail

\* C22: across receive_block and new_weight_proof calls no block record is
\* removed or replaced: the set of hashes contains_block knows only grows,
\* also when the call rolls the height index back.
C22_RecordsNeverPruned ==
    [][last'.op \in {"receive_block", "new_weight_proof"}
          => \A hh \in DOMAIN block_records :
                /\ hh \in DOMAIN block_records'
                /\ block_records'[hh] = block_records[hh]]_vars

\* A reorg replaced the height-index entry of the old peak by a block of
\* the same height, and the old peak's record is still there.
C22_Witness ==
    /\ last.op = "receive_block"
    /\ last.result = "NEW_PEAK"
    /\ \E hh \in DOMAIN block_records :
          /\ hh # peak
          /\ Height(hh) = Height(peak)
          /\ Height(peak) \in DOMAIN height_to_hash
          /\ height_to_hash[Height(peak)].header_hash = peak

\* C25 as stated: every new_weight_proof call overwrites synced_weight_proof
\* and the persisted SYNCED_WEIGHT_PROOF with the supplied proof, also when
\* a peak exists and the proof's tail is not heavier than it.
C25_PersistedOnEveryCall ==
    [][last'.op = "new_weight_proof"
          => /\ synced_weight_proof' = last'.weight_proof
             /\ basic_store'.SYNCED_WEIGHT_PROOF = last'.weight_proof]_vars

\* C25 amended: new_weight_proof overwrites synced_weight_proof and the
\* persisted SYNCED_WEIGHT_PROOF with the supplied proof when there is no
\* peak or the proof's tail is strictly heavier than the peak, before the
\* verifier runs and so also when the verifier then rejects the proof; when
\* a peak exists and the tail is not strictly heavier, both are left as
\* they were.
C25_PersistedUnlessStale ==
    [][last'.op = "new_weight_proof"
          => IF StaleProof(last'.weight_proof)
             THEN /\ synced_weight_proof' = synced_weight_proof
                  /\ basic_store'.SYNCED_WEIGHT_PROOF =
                        basic_store.SYNCED_WEIGHT_PROOF
             ELSE /\ synced_weight_proof' = last'.weight_proof
                  /\ basic_store'.SYNCED_WEIGHT_PROOF =
                        last'.weight_proof]_vars

\* A proof that the verifier rejected is the persisted one, while the peak
\* is still the tail of the proof persisted before it.
C25_Witness ==
    /\ last.op = "new_weight_proof"
    /\ last.result = "AssertionError"
    /\ synced_weight_proof = last.weight_proof
    /\ basic_store.SYNCED_WEIGHT_PROOF = last.weight_proof
    /\ peak # None
    /\ peak \in {wp.tail : wp \in WeightProofs}
    /\ peak # last.weight_proof.tail

\* C26: when there is no peak, receive_block of a block that passes
\* validation returns NEW_PEAK, writes the block's hash at its height into
\* the height index, makes it the in-memory and the persisted peak, and sets
\* the latest timestamp to the block's timestamp if it is a transaction
\* block and leaves it unchanged otherwise.
C26_FirstBlockBecomesPeak ==
    [][(/\ last'.op = "receive_block"
        /\ peak = None
        /\ Validates(last'.block))
          => /\ last'.result = "NEW_PEAK"
             /\ Height(last'.block) \in DOMAIN height_to_hash'
             /\ height_to_hash'[Height(last'.block)] = Bytes32(last'.block)
             /\ peak' = last'.block
             /\ basic_store'.PEAK_BLOCK = last'.block
             /\ latest_timestamp' =
                   IF is_transaction_block_of(last'.block)
                   THEN timestamp_of(last'.block)
                   ELSE latest_timestamp]_vars

\* A block that is not a transaction block became the first peak.
C26_Witness ==
    /\ last.op = "receive_block"
    /\ last.result = "NEW_PEAK"
    /\ peak = last.block
    /\ DOMAIN block_records = {peak}
    /\ ~is_transaction_block_of(peak)
    /\ latest_timestamp = 0
    /\ basic_store.PEAK_BLOCK = peak

\* C27: set_peak_block(block, timestamp) persists block under PEAK_BLOCK
\* and makes it the in-memory peak; the latest timestamp becomes the
\* timestamp passed when there is one, else the block's foliage
\* transaction-block timestamp when it has one, and else stays as it was;
\* the indices and the weight proof are not touched.
C27_SetPeakBlock ==
    [][last'.op = "set_peak_block"
          => /\ basic_store'.PEAK_BLOCK = last'.block
             /\ peak' = last'.block
             /\ latest_timestamp' =
                   IF last'.timestamp # NoTimestamp THEN last'.timestamp
                   ELSE IF is_transaction_block_of(last'.block)
                        THEN timestamp_of(last'.block)
                        ELSE latest_timestamp
             /\ UNCHANGED <<height_to_hash, block_records,
                            synced_weight_proof>>
             /\ basic_store'.SYNCED_WEIGHT_PROOF =
                   basic_store.SYNCED_WEIGHT_PROOF]_vars

\* A block that is not a transaction block was made the peak without a
\* timestamp, and the latest timestamp is the one an earlier call passed.
C27_Witness ==
    /\ last.op = "set_peak_block"
    /\ last.timestamp = NoTimestamp
    /\ ~is_transaction_block_of(last.block)
    /\ peak = last.block
    /\ latest_timestamp = 20

\* get_peak_block as a call on an instance: the value returned and the
\* instance afterwards (the method assigns nothing).
get_peak_block_call(self) == [value |-> get_peak_block(self), self |-> self]

\* C28 as stated: get_peak_block returns the in-memory peak when one is
\* set, and otherwise loads PEAK_BLOCK from the store and leaves the loaded
\* value in the in-memory peak; taken on the instance create() has built
\* when it calls get_peak_block over the present store.
C28_LoadedPeakIsCached ==
    /\ peak # None => get_peak_block_call(Self).value = peak
    /\ LET call == get_peak_block_call(create_line_49(basic_store))
       IN /\ call.value = basic_store.PEAK_BLOCK
          /\ call.self.peak = call.value

\* C28 amended: get_peak_block returns the in-memory peak when one is set
\* and otherwise the PEAK_BLOCK of the store, and assigns nothing; it is
\* create() that assigns the loaded value to the in-memory peak, so that a
\* receive_block after create() compares weights against the loaded peak.
C28_CreateKeepsLoadedPeak ==
    /\ peak # None => get_peak_block_call(Self).value = peak
    /\ get_peak_block_call(Self).self = Self
    /\ LET call == get_peak_block_call(create_line_49(basic_store))
       IN /\ call.value = basic_store.PEAK_BLOCK
          /\ call.self = create_line_49(basic_store)
    /\ last.op = "create" =>
          /\ peak = basic_store.PEAK_BLOCK
          /\ peak # None =>
                \A block \in HeaderBlocks :
                    (Validates(block.header_hash)
                        /\ block.weight <= Weight(peak))
                    => receive_block_outcome(Self, block).result
                           = "ADDED_AS_ORPHAN"

\* create() loaded a persisted peak that no index knows.
C28_Witness ==
    /\ last.op = "create"
    /\ last.result = "ok"
    /\ peak # None
    /\ peak = basic_store.PEAK_BLOCK
    /\ peak \notin DOMAIN block_records

MaxOf(S) == CHOOSE x \in S : \A y \in S : y <= x

\* C29: after new_weight_proof ingested a proof, the latest timestamp is
\* the largest of the latest timestamp before the call and the timestamps
\* of the transaction-block records of the proof; the other records do not
\* count.
C29_LatestTimestampIsMaximum ==
    [][(/\ last'.op = "new_weight_proof"
        /\ ~StaleProof(last'.weight_proof)
        /\ last'.result = "ok")
          => latest_timestamp' =
                MaxOf({latest_timestamp} \cup
                      {rec.timestamp :
                          rec \in {r \in RecordsOf(last'.weight_proof) :
                                      r.is_transaction_block}})]_vars

\* A proof with a record that is not a transaction block was ingested and
\* the latest timestamp is the one of its tail.
C29_Witness ==
    /\ last.op = "new_weight_proof"
    /\ last.result = "ok"
    /\ peak = last.weight_proof.tail
    /\ synced_weight_proof = last.weight_proof
    /\ \E rec \in RecordsOf(last.weight_proof) : ~rec.is_transaction_block
    /\ latest_timestamp = timestamp_of(peak)

\* C30: for a new block whose parent is known, an error of the header
\* validator makes receive_block return INVALID_BLOCK with that error's
\* code, also when the required iterations are missing too; no error and no
\* required iterations make it return INVALID_BLOCK with INVALID_POSPACE.
C30_ValidatorOutcomes ==
    [][(/\ last'.op = "receive_block"
        /\ last'.block \notin DOMAIN block_records
        /\ \/ Height(last'.block) = 0
           \/ prev_header_hash_of(last'.block) \in DOMAIN block_records)
          => LET v == validate_finished_header_block(
                          HeaderBlock(last'.block))
             IN /\ v.error # NoErr =>
                      /\ last'.result = "INVALID_BLOCK"
                      /\ last'.err = v.error
                /\ (v.error = NoErr /\ v.required_iters = NoIters) =>
                      /\ last'.result = "INVALID_BLOCK"
                      /\ last'.err = "INVALID_POSPACE"]_vars

\* The validator returned an error and no required iterations, and the
\* error's code was reported.
C30_Witness ==
    /\ last.op = "receive_block"
    /\ last.result = "INVALID_BLOCK"
    /\ last.validator_called
    /\ validate_finished_header_block(HeaderBlock(last.block)).required_iters
          = NoIters
    /\ last.err = validate_finished_header_block(HeaderBlock(last.block)).error
    /\ last.err # NoErr

\* C21: two receive_block / new_weight_proof calls that overlap can leave
\* the in-memory peak different from the persisted PEAK_BLOCK, or lighter
\* than an earlier peak; calls that run one at a time never do: whenever no
\* call is in flight and none has overlapped another, the in-memory peak is
\* the persisted one and as heavy as every peak before it.
C21_UnsafeOnlyWhenInterleaved ==
    (DOMAIN tasks = {} /\ ~history.overlapped)
        => /\ peak = basic_store.PEAK_BLOCK
           /\ peak # None => Weight(peak) >= history.heaviest
           /\ peak = None => history.heaviest = 0

\* Two calls overlapped and both completed: the in-memory peak is not the
\* persisted one and is lighter than an earlier peak.
C21_Witness ==
    /\ DOMAIN tasks = {}
    /\ history.overlapped
    /\ history.calls = 2
    /\ peak # None
    /\ peak # basic_store.PEAK_BLOCK
    /\ Weight(peak) < history.heaviest

\* A receive_block of a child of the peak aborted on the peak's
\* height-index entry, which a call that waits for remove_object had
\* deleted.
C21_AbortWitness ==
    /\ last.op = "receive_block"
    /\ last.result = "KeyError"
    /\ peak # None
    /\ prev_header_hash_of(last.block) = peak
    /\ Height(peak) \notin DOMAIN height_to_hash
    /\ \E id \in DOMAIN tasks :
          /\ tasks[id].pc = "remove_object"
          /\ tasks[id].fork_height = Height(peak)

\* C23: when a with clvm_serialization_mode block ends without an
\* exception, the mode and the transport layer are again what they were when
\* that block was entered, at every depth of nesting, and when the
\* outermost block has ended they are the values the module starts with.
C23_ModeRestoredOnExit ==
    [][Len(with_blocks') < Len(with_blocks)
          => /\ USE_CLVM_SERIALIZATION' =
                   with_blocks[Len(with_blocks)].mode_on_entry
             /\ TRANSPORT_LAYER' = with_blocks[Len(with_blocks)].tl_on_entry
             /\ with_blocks' = <<>> =>
                   /\ USE_CLVM_SERIALIZATION' = FALSE
                   /\ TRANSPORT_LAYER' = NoLayer]_vars

\* A block nested in a False block inside a True block has ended: the mode
\* is False and the transport layer the one of the False block again.
C23_Witness ==
    /\ last.op = "clvm_serialization_mode.exit"
    /\ Len(with_blocks) = 2
    /\ with_blocks[1].old_mode = FALSE
    /\ with_blocks[2].old_mode = TRUE
    /\ with_blocks[2].old_tl = NoLayer
    /\ USE_CLVM_SERIALIZATION = FALSE
    /\ TRANSPORT_LAYER = BLIND_SIGNER_TRANSPORT

\* The transport-layer object with the field values of a target, a hint
\* or a response.
BSTLOfFlat(x) ==
    IF x.class = "SigningTarget"
    THEN BSTLSigningTarget(x.fields.pubkey, x.fields.message, x.fields.hook)
    ELSE IF x.class = "SumHint"
    THEN BSTLSumHint(x.fields.fingerprints, x.fields.synthetic_offset)
    ELSE IF x.class = "PathHint"
    THEN BSTLPathHint(x.fields.root_fingerprint, x.fields.path)
    ELSE BSTLSigningResponse(x.fields.signature, x.fields.hook)

\* The transport-layer object the test builds from the field values of a
\* wallet-API object.
BSTLBuiltDirectly(x) ==
    IF x.class # "SigningInstructions" THEN BSTLOfFlat(x)
    ELSE BSTLSigningInstructions(
             [i \in DOMAIN x.fields.key_hints.fields.sum_hints |->
                 BSTLOfFlat(x.fields.key_hints.fields.sum_hints[i])],
             [i \in DOMAIN x.fields.key_hints.fields.path_hints |->
                 BSTLOfFlat(x.fields.key_hints.fields.path_hints[i])],
             [i \in DOMAIN x.fields.targets |->
                 BSTLOfFlat(x.fields.targets[i])])

\* C24: for every wallet-API object x that BLIND_SIGNER_TRANSPORT maps,
\* the mapping's deserialize_function undoes its serialize_function,
\* serialize_for_transport(x) is the transport-layer object with the same
\* field values, and deserialize_from_transport gives x back.
C24_TransportRoundTrip ==
    transport.step # "idle" =>
        LET x == transport.instance
            mappings == MappingsFrom(BLIND_SIGNER_TRANSPORT, x.class)
        IN /\ Len(mappings) = 1
           /\ deserialize_function(mappings[1],
                                   serialize_function(mappings[1], x)) = x
           /\ transport.sent.ok
           /\ transport.sent.value = BSTLBuiltDirectly(x)
           /\ transport.step = "deserialized" =>
                 /\ transport.received.ok
                 /\ transport.received.value = x

\* Signing instructions with two sum hints, two path hints and two targets
\* went through the layer and came back.
C24_Witness ==
    /\ transport.step = "deserialized"
    /\ transport.instance.class = "SigningInstructions"
    /\ Len(transport.instance.fields.key_hints.fields.sum_hints) = 2
    /\ Len(transport.instance.fields.key_hints.fields.path_hints) = 2
    /\ Len(transport.instance.fields.targets) = 2
    /\ transport.sent.value.class = "BSTLSigningInstructions"
    /\ transport.received.value = transport.instance

\* C31: the unpersisted-peak window always closes.  A receive_block call
\* that starts with a persisted PEAK_BLOCK never returns, or raises, with
\* PEAK_BLOCK removed: the removal in _rollback_to_height is followed by
\* the write in set_peak_block before the call ends.  Whenever the call
\* returns NEW_PEAK the persisted PEAK_BLOCK is the block just received.
C31_WindowCloses ==
    [][last'.op = "receive_block" =>
          /\ basic_store.PEAK_BLOCK # None => basic_store'.PEAK_BLOCK # None
          /\ last'.result = "NEW_PEAK" =>
                 basic_store'.PEAK_BLOCK = last'.block]_vars

\* A heavier block has replaced a persisted peak of the other branch: the
\* rollback removed PEAK_BLOCK and the new block was written in its place.
C31_Witness ==
    /\ last.op = "receive_block"
    /\ last.result = "NEW_PEAK"
    /\ last.block = <<"B", 3>>
    /\ basic_store.PEAK_BLOCK = <<"B", 3>>
    /\ <<"A", 3>> \in DOMAIN block_records

\* C33 as stated: when the verifier fails inside new_weight_proof,
\* synced_weight_proof and the persisted SYNCED_WEIGHT_PROOF hold the value
\* they had before the call.
C33_FailureLeavesStoredProof ==
    [][(last'.op = "new_weight_proof" /\ last'.result = "AssertionError")
          => /\ synced_weight_proof' = synced_weight_proof
             /\ basic_store'.SYNCED_WEIGHT_PROOF =
                   basic_store.SYNCED_WEIGHT_PROOF]_vars

\* C33 amended: when the verifier fails inside new_weight_proof, the proof
\* has already been assigned and persisted, so synced_weight_proof and the
\* persisted SYNCED_WEIGHT_PROOF hold the rejected proof, while the persisted
\* PEAK_BLOCK is as before; a create() on that store hands the rejected proof
\* to new_weight_proof again, which either returns at the staleness guard or
\* raises the same AssertionError, and never ingests a record of it.
C33_FailureKeepsRejectedProof ==
    [][(last'.op = "new_weight_proof" /\ last'.result = "AssertionError")
          => /\ synced_weight_proof' = last'.weight_proof
             /\ basic_store'.SYNCED_WEIGHT_PROOF = last'.weight_proof
             /\ basic_store'.PEAK_BLOCK = basic_store.PEAK_BLOCK
             /\ LET restart == create_outcome(basic_store')
                IN /\ restart.self.synced_weight_proof = last'.weight_proof
                   /\ restart.self.block_records = EmptyDict
                   /\ (restart.result = "AssertionError") <=>
                         \/ basic_store'.PEAK_BLOCK = None
                         \/ Weight(last'.weight_proof.tail) >
                               Weight(basic_store'.PEAK_BLOCK)]_vars

\* The verifier has rejected a proof that replaced an accepted one in the
\* store, and the create() that follows raises on it.
C33_Witness ==
    /\ last.op = "new_weight_proof"
    /\ last.result = "AssertionError"
    /\ basic_store.SYNCED_WEIGHT_PROOF = last.weight_proof
    /\ ~last.weight_proof.valid
    /\ basic_store.PEAK_BLOCK # None
    /\ create_outcome(basic_store).result = "AssertionError"

\* The index holds exactly the records the verifier returns for the proof.
RebuiltFrom(weight_proof) ==
    /\ DOMAIN height_to_hash = {rec.height : rec \in RecordsOf(weight_proof)}
    /\ DOMAIN block_records =
          {rec.header_hash : rec \in RecordsOf(weight_proof)}
    /\ \A rec \in RecordsOf(weight_proof) :
          /\ height_to_hash[rec.height] = Bytes32(rec.header_hash)
          /\ block_records[rec.header_hash] = rec

\* C32 as stated: after a crash in the rollback window create() finds no
\* persisted peak; if a weight proof is persisted it is re-ingested, the peak
\* is its tail and the index is rebuilt from it, otherwise there is no peak
\* and the index is empty; a peak that is reported has its record.
C32_RestartAfterCrash ==
    [][(last.op = "crash" /\ last'.op = "create")
          => /\ basic_store.PEAK_BLOCK = None
             /\ IF basic_store.SYNCED_WEIGHT_PROOF # NoProof
                THEN /\ last'.result = "ok"
                     /\ peak' = basic_store.SYNCED_WEIGHT_PROOF.tail
                     /\ RebuiltFrom(basic_store.SYNCED_WEIGHT_PROOF)'
                ELSE /\ last'.result = "ok"
                     /\ peak' = None
                     /\ height_to_hash' = EmptyDict
                     /\ block_records' = EmptyDict
             /\ peak' # None => peak' \in DOMAIN block_records']_vars

\* C32 amended: as stated when the persisted proof is one the verifier
\* accepts or no proof is persisted; when the persisted proof is one the
\* verifier rejects, create() raises AssertionError.  In no case is a peak
\* reported whose record is missing from the index.
C32_RestartAfterCrashVerified ==
    [][(last.op = "crash" /\ last'.op = "create")
          => /\ basic_store.PEAK_BLOCK = None
             /\ IF basic_store.SYNCED_WEIGHT_PROOF = NoProof
                THEN /\ last'.result = "ok"
                     /\ peak' = None
                     /\ height_to_hash' = EmptyDict
                     /\ block_records' = EmptyDict
                ELSE IF basic_store.SYNCED_WEIGHT_PROOF.valid
                THEN /\ last'.result = "ok"
                     /\ peak' = basic_store.SYNCED_WEIGHT_PROOF.tail
                     /\ basic_store'.PEAK_BLOCK = peak'
                     /\ RebuiltFrom(basic_store.SYNCED_WEIGHT_PROOF)'
                ELSE /\ last'.result = "AssertionError"
                     /\ peak' = None
                     /\ block_records' = EmptyDict
             /\ peak' # None => peak' \in DOMAIN block_records']_vars

\* create() has rebuilt the index from the persisted proof, which it does
\* only when it finds no persisted peak as heavy as the proof's tail.
C32_Witness ==
    /\ last.op = "create"
    /\ last.result = "ok"
    /\ basic_store.SYNCED_WEIGHT_PROOF.valid
    /\ peak = basic_store.SYNCED_WEIGHT_PROOF.tail
    /\ basic_store.PEAK_BLOCK = peak
    /\ peak \in DOMAIN block_records
    /\ RebuiltFrom(basic_store.SYNCED_WEIGHT_PROOF)

\* C34: across new_weight_proof and receive_block calls run one at a time
\* with a verifier that succeeds, a peak once set stays set and its weight
\* never decreases, and after every call the peak is at least as heavy as
\* the tail of the persisted weight proof.
C34_PeakWeightNonDecreasing ==
    [][/\ peak # None => (peak' # None /\ Weight(peak') >= Weight(peak))
       /\ basic_store'.SYNCED_WEIGHT_PROOF # NoProof
             => /\ peak' # None
                /\ Weight(peak') >=
                      Weight(basic_store'.SYNCED_WEIGHT_PROOF.tail)]_vars

\* Both operations have moved the peak: a proof was ingested, and a block
\* received afterwards is now the peak, heavier than the proof's tail.
C34_Witness ==
    /\ last.op = "receive_block"
    /\ last.result = "NEW_PEAK"
    /\ peak = last.block
    /\ basic_store.SYNCED_WEIGHT_PROOF # NoProof
    /\ Weight(peak) > Weight(basic_store.SYNCED_WEIGHT_PROOF.tail)

\* C35: on an instance with no peak and an empty block-record index,
\* receive_block answers every block of height > 0 with DISCONNECTED_BLOCK
\* and leaves the instance without peak and records, so the first block it
\* adopts as peak is a block of height 0.
C35_FirstPeakIsGenesis ==
    [][(/\ last'.op = "receive_block"
        /\ peak = None
        /\ block_records = EmptyDict)
          => /\ Height(last'.block) > 0
                   => /\ last'.result = "DISCONNECTED_BLOCK"
                      /\ peak' = None
                      /\ block_records' = EmptyDict
                      /\ height_to_hash' = height_to_hash
             /\ last'.result = "NEW_PEAK"
                   => /\ Height(last'.block) = 0
                      /\ peak' = last'.block
             /\ peak' # None => Height(peak') = 0]_vars

\* A block of height > 0 has been turned away by an instance that still has
\* no peak and no record.
C35_Witness ==
    /\ last.op = "receive_block"
    /\ last.result = "DISCONNECTED_BLOCK"
    /\ Height(last.block) > 0
    /\ peak = None
    /\ block_records = EmptyDict
    /\ height_to_hash = EmptyDict

\* C36: the pair receive_block returns.  The error code is present exactly
\* when the result is DISCONNECTED_BLOCK or INVALID_BLOCK, and absent for
\* ALREADY_HAVE_BLOCK, NEW_PEAK and ADDED_AS_ORPHAN; a call that raises
\* returns no pair.
C36_ResultAndErrorPaired ==
    [][(last'.op = "receive_block" /\ last'.result \in ResultCodes)
          => /\ (last'.err # NoErr) <=>
                   last'.result \in {"DISCONNECTED_BLOCK", "INVALID_BLOCK"}
             /\ last'.result \in
                   {"ALREADY_HAVE_BLOCK", "NEW_PEAK", "ADDED_AS_ORPHAN"}
                   => last'.err = NoErr
             /\ last'.result = "DISCONNECTED_BLOCK"
                   => last'.err = "INVALID_PREV_BLOCK_HASH"]_vars

\* A block without its parent has been answered with DISCONNECTED_BLOCK and
\* the error code that goes with it, by an instance that has a peak.
C36_Witness ==
    /\ last.op = "receive_block"
    /\ last.result = "DISCONNECTED_BLOCK"
    /\ last.err = "INVALID_PREV_BLOCK_HASH"
    /\ peak # None

\* C37: when the body of a with clvm_serialization_mode(...) block exits by
\* raising, USE_CLVM_SERIALIZATION and TRANSPORT_LAYER are again what they
\* were when the block was entered.
C37_RestoredOnException ==
    [][last'.op = "clvm_serialization_mode.raise"
          => /\ USE_CLVM_SERIALIZATION' =
                   with_blocks[Len(with_blocks)].mode_on_entry
             /\ TRANSPORT_LAYER' =
                   with_blocks[Len(with_blocks)].tl_on_entry]_vars

\* The positions in the layer's list of the mappings from, and to, a class.
PositionsFrom(layer, class) ==
    {i \in DOMAIN layer.type_mappings :
        layer.type_mappings[i].from_type = class}
PositionsTo(layer, class) ==
    {i \in DOMAIN layer.type_mappings :
        layer.type_mappings[i].to_type = class}

\* C38: the lookup of a TransportLayer.  get_mapping and
\* serialize_for_transport look at the mappings whose from_type is the given
\* class, deserialize_from_transport at those whose to_type is: with exactly
\* one such mapping it is returned, respectively its function applied to the
\* instance; with none, get_mapping returns None and the two others the
\* instance unchanged; with more than one each raises RuntimeError.
C38_LookupUnambiguous ==
    transport.step \in {"get_mapping", "serialize_for_transport",
                        "deserialize_from_transport"} =>
        LET layer == transport.layer
            x == transport.instance
            found == IF transport.step = "deserialize_from_transport"
                     THEN PositionsTo(layer, x.class)
                     ELSE PositionsFrom(layer, x.class)
            the == layer.type_mappings[CHOOSE i \in found : TRUE]
        IN /\ Cardinality(found) > 1 => ~transport.result.ok
           /\ Cardinality(found) = 0 =>
                 /\ transport.result.ok
                 /\ transport.result.value =
                       IF transport.step = "get_mapping"
                       THEN NoMapping ELSE x
           /\ Cardinality(found) = 1 =>
                 /\ transport.result.ok
                 /\ transport.result.value =
                       IF transport.step = "get_mapping" THEN the
                       ELSE IF transport.step = "serialize_for_transport"
                       THEN serialize_function(the, x)
                       ELSE deserialize_function(the, x)

\* serialize_for_transport has raised on a layer with two mappings from the
\* class of the instance.
C38_Witness ==
    /\ transport.step = "serialize_for_transport"
    /\ transport.layer = SPLIT_TRANSPORT
    /\ transport.instance.class = "SumHint"
    /\ Cardinality(PositionsFrom(transport.layer, "SumHint")) = 2
    /\ ~transport.result.ok

====
